---- MODULE Spec2Model ----
(***************************************************************************)
(* Regime-classification engine of sector_flow_model.py: the rolling       *)
(* yearly / weekly / daily classifiers, the session classifier, the label  *)
(* aggregator (compute_latest_labels) and the acquisition retry loop       *)
(* (_fetch_data_uncached).                                                 *)
(*                                                                         *)
(* Prices are integer ticks.  Highs and lows are even ticks, so that       *)
(* mid = (hi + lo) / 2 is the exact quotient the float division gives.     *)
(* Averages (ATR, moving averages) are kept as exact fractions num/den and *)
(* compared by cross-multiplication; float rounding is not modelled.       *)
(***************************************************************************)
EXTENDS Integers, Sequences, FiniteSets, TLC

VARIABLES
    df,        \* the OHLC series handed to the classifiers (High/Low/Close per bar)
    index,     \* its DatetimeIndex: [t0, step] in hours UTC, bar i at t0 + step*(i-1)
    entity,    \* the name handed to compute_latest_labels
    y, w, d, s,\* the yearly, weekly, daily and session frames
    row,       \* the record compute_latest_labels returns
    pc,        \* position in the per-entity pipeline
    retries,   \* _fetch_data_uncached: the retries argument
    attempt,   \* _fetch_data_uncached: the loop variable
    fpc,       \* _fetch_data_uncached: position ("idle" outside a fetch)
    calls,     \* number of provider calls made by this fetch
    events,    \* what the fetch did, in order: provider outcomes and sleeps
    fetched,   \* _fetch_data_uncached: df, the frame the last provider call gave
    result,    \* what the fetch returned
    ohlc_members, \* series algebra: the input series, by member name
    base,      \* series algebra: the base argument
    out,       \* series algebra: the series the operation returned
    op,        \* series algebra: the operation applied ("none" before)
    slot,      \* build_yahoo_composite: the loop variable i, from 1
    cdf,       \* build_yahoo_composite: df, the frame of the current slot
    data,      \* build_yahoo_composite: the dict data, as a sequence of items
    fetchlog,  \* build_yahoo_composite: the tickers fetch_data was called with
    comp,      \* build_yahoo_composite: the frame returned
    cpc,       \* build_yahoo_composite: position ("idle" outside a call)
    atr_period, \* atr: the period argument
    atr_out,   \* atr: the series returned, one fraction per bar
    cache,     \* DataCache.cache: key -> [data, timestamp]
    now,       \* datetime.now(), in ticks
    ttl,       \* DataCache.ttl, in ticks
    oplog,     \* the get, set and clear calls made on the cache, in order
    loading_status, \* DataLoader.loading_status
    progress,  \* DataLoader.progress, in sixtieths
    status_message, \* DataLoader.status_message
    callers,   \* the coroutines calling the loader, by caller
    ncalls     \* number of load calls started so far

clsVars == <<df, index, entity, y, w, d, s, row, pc>>
fetchVars == <<retries, attempt, fpc, calls, events, fetched, result>>
algVars == <<ohlc_members, base, out, op>>
compVars == <<slot, cdf, data, fetchlog, comp, cpc>>
atrVars == <<atr_period, atr_out>>
loaderVars == <<cache, now, ttl, oplog, loading_status, progress,
                status_message, callers, ncalls>>
vars == <<df, index, entity, y, w, d, s, row, pc,
          retries, attempt, fpc, calls, events, fetched, result,
          ohlc_members, base, out, op,
          slot, cdf, data, fetchlog, comp, cpc,
          atr_period, atr_out,
          cache, now, ttl, oplog, loading_status, progress, status_message,
          callers, ncalls>>

(***************************************************************************)
(* Program parameters.                                                     *)
(***************************************************************************)
YEARLY_RANGE_DAYS == 28
WEEKLY_RANGE_DAYS == 5
DAILY_RANGE_DAYS == 1
ATR_PERIOD == 20
ATR_LEN_DEFAULT == 14
FAST_LEN == 5
SLOW_LEN == 10
\* NEAR_THRESH_ATR = 0.5 as the fraction NearThreshNum / NearThreshDen
NearThreshNum == 1
NearThreshDen == 2

(***************************************************************************)
(* Bounds of the model.                                                    *)
(***************************************************************************)
MaxPad == 28
MaxTail == 2
MaxRetries == 3
MaxRows == 2
MaxSess == 3
MaxT == 2
MaxRatioLen == 4
MaxPeriod == 3
MaxTime == 1
MaxCalls == 2

\* NaN cells of a summary record; a present value v is the one-tuple <<v>>.
NaN == << >>
\* A frame row whose seven cells are all NaN (np.nan x 7).
NaNRow == [isna |-> TRUE]

Abs(x) == IF x < 0 THEN 0 - x ELSE x
Max2(a, b) == IF a >= b THEN a ELSE b
SetMax(S) == CHOOSE x \in S : \A z \in S : z <= x
SetMin(S) == CHOOSE x \in S : \A z \in S : x <= z

RECURSIVE SumOver(_, _, _)
\* sum of f[j] for j in a..b
SumOver(f, a, b) == IF a > b THEN 0 ELSE f[b] + SumOver(f, a, b - 1)

(***************************************************************************)
(* Utilities: atr                                                          *)
(***************************************************************************)
\* True range of bar i: max of |High-Low|, |High-prevClose|, |Low-prevClose|;
\* on the first bar the two shifted terms are NaN and max(axis=1) skips them.
TrueRange(f, i) ==
    LET high_low == Abs(f[i].High - f[i].Low)
    IN  IF i = 1 THEN high_low
        ELSE LET high_close == Abs(f[i].High - f[i - 1].Close)
                 low_close == Abs(f[i].Low - f[i - 1].Close)
             IN  Max2(high_low, Max2(high_close, low_close))

\* Mutant: the sum of the window is always divided by period.
atr_fixedden(f, period, i) ==
    LET first == Max2(1, i - period + 1)
        tr == [j \in 1..i |-> TrueRange(f, j)]
    IN  [num |-> SumOver(tr, first, i), den |-> period]

\* atr(df, period).iloc[i]: tr.rolling(period, min_periods=1).mean(), as the
\* fraction num/den over the last min(i, period) bars.
atr(f, period, i) ==
    LET first == Max2(1, i - period + 1)
        tr == [j \in 1..i |-> TrueRange(f, j)]
    IN  [num |-> SumOver(tr, first, i), den |-> i - first + 1]

(***************************************************************************)
(* Regime models                                                           *)
(***************************************************************************)
\* Mutant: the Weak Bull test written close >= mid, so close = mid is no longer Neutral.
_classify_macro_ge_mid(close, hi, lo, mid) ==
    IF close > mid /\ close > hi THEN "Strong Bull"
    ELSE IF close >= mid THEN "Weak Bull"
    ELSE IF close < mid /\ close < lo THEN "Strong Bear"
    ELSE IF close < mid THEN "Weak Bear"
    ELSE "Neutral"

\* Mutant: the Strong Bull test written close >= hi.
_classify_macro_ge_hi(close, hi, lo, mid) ==
    IF close > mid /\ close >= hi THEN "Strong Bull"
    ELSE IF close > mid THEN "Weak Bull"
    ELSE IF close < mid /\ close < lo THEN "Strong Bear"
    ELSE IF close < mid THEN "Weak Bear"
    ELSE "Neutral"

_classify_macro(close, hi, lo, mid) ==
    IF close > mid /\ close > hi THEN "Strong Bull"
    ELSE IF close > mid THEN "Weak Bull"
    ELSE IF close < mid /\ close < lo THEN "Strong Bear"
    ELSE IF close < mid THEN "Weak Bear"
    ELSE "Neutral"

\* Mutant: the rolling mean taken with min_periods=1 (a shrinking window).
RollingMeanLast_min1(f, len) ==
    LET n == Len(f)
        first == IF n < len THEN 1 ELSE n - len + 1
        closes == [j \in 1..n |-> f[j].Close]
    IN  IF n = 0 THEN [isna |-> TRUE, num |-> 0, den |-> 1]
        ELSE [isna |-> FALSE, num |-> SumOver(closes, first, n), den |-> n - first + 1]

\* df["Close"].rolling(len).mean().iloc[-1]: NaN (isna) unless the frame holds
\* at least len rows, else the mean of the last len closes as num/den.
RollingMeanLast(f, len) ==
    LET n == Len(f)
        closes == [j \in 1..n |-> f[j].Close]
    IN  IF n < len THEN [isna |-> TRUE, num |-> 0, den |-> 1]
        ELSE [isna |-> FALSE, num |-> SumOver(closes, n - len + 1, n), den |-> len]

\* a > b and a < b on floats that may be NaN: any comparison with NaN is False.
MeanGT(a, b) == ~a.isna /\ ~b.isna /\ a.num * b.den > b.num * a.den
MeanLT(a, b) == ~a.isna /\ ~b.isna /\ a.num * b.den < b.num * a.den

\* "Bull" in macro, "Bear" in macro
HasBull(macro) == macro \in {"Strong Bull", "Weak Bull"}
HasBear(macro) == macro \in {"Strong Bear", "Weak Bear"}

\* Mutant: the Bull test written "not fast_ma < slow_ma", true on NaN.
_classify_micro_notlt(f, fast_len, slow_len, macro) ==
    LET fast_ma == RollingMeanLast(f, fast_len)
        slow_ma == RollingMeanLast(f, slow_len)
    IN  IF HasBull(macro)
        THEN (IF ~MeanLT(fast_ma, slow_ma) THEN "Micro Bull+" ELSE "Micro Bear")
        ELSE IF HasBear(macro)
        THEN (IF MeanLT(fast_ma, slow_ma) THEN "Micro Bear" ELSE "Micro Bull")
        ELSE "Neutral"

_classify_micro(f, fast_len, slow_len, macro) ==
    LET fast_ma == RollingMeanLast(f, fast_len)
        slow_ma == RollingMeanLast(f, slow_len)
    IN  IF HasBull(macro)
        THEN (IF MeanGT(fast_ma, slow_ma) THEN "Micro Bull+" ELSE "Micro Bear")
        ELSE IF HasBear(macro)
        THEN (IF MeanLT(fast_ma, slow_ma) THEN "Micro Bear" ELSE "Micro Bull")
        ELSE "Neutral"

\* Mutant: the distance taken in absolute value.
DistNear_abs(delta, atr_val) ==
    Abs(delta) * atr_val.den * NearThreshDen < NearThreshNum * atr_val.num

\* dist < near_thresh_atr where dist = delta / atr_val and atr_val > 0
DistNear(delta, atr_val) ==
    delta * atr_val.den * NearThreshDen < NearThreshNum * atr_val.num

\* Mutant: rule (a) without its distance test.
_classify_transition_nodist(close, hi, lo, mid, atr_val) ==
    IF atr_val.num <= 0 THEN "None"
    ELSE LET dist_hi_near == DistNear(hi - close, atr_val)
             dist_lo_near == DistNear(close - lo, atr_val)
         IN  IF close < hi /\ close > mid THEN "Approaching Weak Bull"
             ELSE IF close > hi /\ dist_hi_near THEN "Approaching Strong Bull"
             ELSE IF close > lo /\ close < mid /\ dist_lo_near THEN "Approaching Weak Bear"
             ELSE IF close < lo /\ dist_lo_near THEN "Approaching Strong Bear"
             ELSE "None"

\* Mutant: rule (a) written close >= mid.
_classify_transition_ge_mid(close, hi, lo, mid, atr_val) ==
    IF atr_val.num <= 0 THEN "None"
    ELSE LET dist_hi_near == DistNear(hi - close, atr_val)
             dist_lo_near == DistNear(close - lo, atr_val)
         IN  IF close < hi /\ close >= mid /\ dist_hi_near THEN "Approaching Weak Bull"
             ELSE IF close > hi /\ dist_hi_near THEN "Approaching Strong Bull"
             ELSE IF close > lo /\ close < mid /\ dist_lo_near THEN "Approaching Weak Bear"
             ELSE IF close < lo /\ dist_lo_near THEN "Approaching Strong Bear"
             ELSE "None"

\* Mutant: rule (b) written close >= hi.
_classify_transition_ge_hi(close, hi, lo, mid, atr_val) ==
    IF atr_val.num <= 0 THEN "None"
    ELSE LET dist_hi_near == DistNear(hi - close, atr_val)
             dist_lo_near == DistNear(close - lo, atr_val)
         IN  IF close < hi /\ close > mid /\ dist_hi_near THEN "Approaching Weak Bull"
             ELSE IF close >= hi /\ dist_hi_near THEN "Approaching Strong Bull"
             ELSE IF close > lo /\ close < mid /\ dist_lo_near THEN "Approaching Weak Bear"
             ELSE IF close < lo /\ dist_lo_near THEN "Approaching Strong Bear"
             ELSE "None"

_classify_transition(close, hi, lo, mid, atr_val) ==
    IF atr_val.num <= 0 THEN "None"
    ELSE LET dist_hi_near == DistNear(hi - close, atr_val)
             dist_lo_near == DistNear(close - lo, atr_val)
         IN  IF close < hi /\ close > mid /\ dist_hi_near THEN "Approaching Weak Bull"
             ELSE IF close > hi /\ dist_hi_near THEN "Approaching Strong Bull"
             ELSE IF close > lo /\ close < mid /\ dist_lo_near THEN "Approaching Weak Bear"
             ELSE IF close < lo /\ dist_lo_near THEN "Approaching Strong Bear"
             ELSE "None"

\* Mutant: the window test off by one (the bar that fills the window is skipped).
RollingIsNa_late(i, window) == i <= window

\* Mutant: the window ends at the bar before the one being classified.
RollingHi_prev(f, i, window) ==
    IF i = 1 THEN f[1].High
    ELSE SetMax({f[j].High : j \in Max2(1, i - window)..(i - 1)})

\* df["High"].rolling(window).max().iloc[i] and df["Low"].rolling(window).min().iloc[i];
\* both are NaN while fewer than window bars exist (RollingIsNa).
RollingIsNa(i, window) == i < window
RollingHi(f, i, window) == SetMax({f[j].High : j \in (i - window + 1)..i})
RollingLo(f, i, window) == SetMin({f[j].Low : j \in (i - window + 1)..i})
Mid(hi, lo) == (hi + lo) \div 2

\* Mutant: the whole frame is passed on instead of df.iloc[: i + 1].
Prefix_whole(f, i) == f

\* df.iloc[: i + 1]
Prefix(f, i) == [j \in 1..i |-> f[j]]

\* The body of the per-bar loop shared by the three rolling classifiers.
RegimeRow(f, i, window, atr_len) ==
    LET hi == RollingHi(f, i, window)
        lo == RollingLo(f, i, window)
        mid == Mid(hi, lo)
        close == f[i].Close
        macro == _classify_macro(close, hi, lo, mid)
        micro == _classify_micro(Prefix(f, i), FAST_LEN, SLOW_LEN, macro)
        trans == _classify_transition(close, hi, lo, mid, atr(f, atr_len, i))
    IN  [isna |-> FALSE, Macro |-> macro, Micro |-> micro, Transition |-> trans,
         Close |-> close, Hi |-> hi, Lo |-> lo, Mid |-> mid]

\* Yearly regime: 28-bar range, ATR_PERIOD.  An empty df gives the empty frame.
classify_regime(f) ==
    [i \in 1..Len(f) |->
        IF RollingIsNa(i, YEARLY_RANGE_DAYS) THEN NaNRow
        ELSE RegimeRow(f, i, YEARLY_RANGE_DAYS, ATR_PERIOD)]

\* The weekly and daily frames name their label columns with a prefix.
WeeklyColumns(r) ==
    [isna |-> FALSE, WeeklyMacro |-> r.Macro, WeeklyMicro |-> r.Micro,
     WeeklyTransition |-> r.Transition,
     Close |-> r.Close, Hi |-> r.Hi, Lo |-> r.Lo, Mid |-> r.Mid]
DailyColumns(r) ==
    [isna |-> FALSE, DailyMacro |-> r.Macro, DailyMicro |-> r.Micro,
     DailyTransition |-> r.Transition,
     Close |-> r.Close, Hi |-> r.Hi, Lo |-> r.Lo, Mid |-> r.Mid]

classify_weekly_regime(f) ==
    [i \in 1..Len(f) |->
        IF RollingIsNa(i, WEEKLY_RANGE_DAYS) THEN NaNRow
        ELSE WeeklyColumns(RegimeRow(f, i, WEEKLY_RANGE_DAYS, ATR_LEN_DEFAULT))]

\* rolling(1) is never NaN: the daily loop has no isna test.
classify_daily_regime(f) ==
    [i \in 1..Len(f) |->
        DailyColumns(RegimeRow(f, i, DAILY_RANGE_DAYS, ATR_LEN_DEFAULT))]

(***************************************************************************)
(* Session-specific regimes                                                *)
(***************************************************************************)
\* The sessions dict, in insertion order, with its (start, end) local hours.
SessionNames == <<"Asia", "London", "NY AM", "NY PM">>
SessionStart(name) ==
    CASE name = "Asia" -> 4 [] name = "London" -> 9
      [] name = "NY AM" -> 12 [] name = "NY PM" -> 13
SessionEnd(name) ==
    CASE name = "Asia" -> 5 [] name = "London" -> 10
      [] name = "NY AM" -> 13 [] name = "NY PM" -> 14

\* pd.infer_freq(df.index) on a regular index of at least three stamps:
\* "D" for a 24-hour step, an anchored weekly alias for a 7-day step, a
\* month-start alias for monthly stamps, an hourly alias otherwise.  Months
\* are whole days long: the monthly index is laid out with a 30-day step,
\* which leaves the hour of day of its stamps as it is.
InferFreq(ix) ==
    CASE ix.step = 24 -> "D"
      [] ix.step = 168 -> "W-MON"
      [] ix.step = 720 -> "MS"
      [] OTHER -> "h"
\* pd.infer_freq raises ValueError on fewer than three stamps.
InferFreqRaises(f) == Len(f) < 3

\* Hour of day of bar i after tz_localize("UTC").tz_convert("America/New_York").
LocalHour(ix, i) == (ix.t0 + ix.step * (i - 1) - ix.utcoff) % 24

\* mask: strftime("%H:%M") >= start and < end, for stamps on the full hour
InSession(ix, i, name) ==
    LocalHour(ix, i) >= SessionStart(name) /\ LocalHour(ix, i) < SessionEnd(name)

SessionIdx(f, ix, name) ==
    SelectSeq([i \in 1..Len(f) |-> i], LAMBDA i : InSession(ix, i, name))

\* One result row for a session whose mask is not empty.
SessionRow(f, ix, name) ==
    LET at == SessionIdx(f, ix, name)
        sess_df == [k \in 1..Len(at) |-> f[at[k]]]
        hi == SetMax({sess_df[k].High : k \in 1..Len(sess_df)})
        lo == SetMin({sess_df[k].Low : k \in 1..Len(sess_df)})
        mid == Mid(hi, lo)
        close == sess_df[Len(sess_df)].Close
        macro == _classify_macro(close, hi, lo, mid)
        micro == _classify_micro(sess_df, FAST_LEN, SLOW_LEN, macro)
        trans == _classify_transition(close, hi, lo, mid,
                                      atr(f, ATR_LEN_DEFAULT, Len(f)))
    IN  [Session |-> name, Close |-> close, Macro |-> macro, Micro |-> micro,
         Transition |-> trans, Hi |-> hi, Lo |-> lo, Mid |-> mid]

\* classify_session_regimes on a df for which infer_freq does not raise.
classify_session_regimes(f, ix) ==
    IF Len(f) = 0 THEN << >>
    ELSE IF InferFreq(ix) \in {"B", "D", "W", "M", "Q", "A"} THEN << >>
    ELSE LET hit == SelectSeq(SessionNames,
                              LAMBDA name : Len(SessionIdx(f, ix, name)) > 0)
         IN  [k \in 1..Len(hit) |-> SessionRow(f, ix, hit[k])]

(***************************************************************************)
(* compute_latest_labels                                                   *)
(***************************************************************************)
\* frame[col].iloc[-1] of a rolling frame: NaN in a row of NaNs.
LastCell(frame, col) ==
    LET r == frame[Len(frame)] IN IF r.isna THEN NaN ELSE <<r[col]>>

Merge(f, g) ==
    [k \in DOMAIN f \cup DOMAIN g |-> IF k \in DOMAIN g THEN g[k] ELSE f[k]]

EmptyRecord == [k \in {} |-> NaN]

\* Mutant: the yearly block forgets the Close field.
YearlyFields_noclose(yf) ==
    IF Len(yf) = 0 THEN EmptyRecord
    ELSE [Macro |-> LastCell(yf, "Macro"), Micro |-> LastCell(yf, "Micro"),
          Transition |-> LastCell(yf, "Transition")]

YearlyFields(yf) ==
    IF Len(yf) = 0 THEN EmptyRecord
    ELSE [Macro |-> LastCell(yf, "Macro"), Micro |-> LastCell(yf, "Micro"),
          Transition |-> LastCell(yf, "Transition"), Close |-> LastCell(yf, "Close")]
WeeklyFields(wf) ==
    IF Len(wf) = 0 THEN EmptyRecord
    ELSE [WeeklyMacro |-> LastCell(wf, "WeeklyMacro"),
          WeeklyMicro |-> LastCell(wf, "WeeklyMicro"),
          WeeklyTransition |-> LastCell(wf, "WeeklyTransition")]
DailyFields(dfr) ==
    IF Len(dfr) = 0 THEN EmptyRecord
    ELSE [DailyMacro |-> LastCell(dfr, "DailyMacro"),
          DailyMicro |-> LastCell(dfr, "DailyMicro"),
          DailyTransition |-> LastCell(dfr, "DailyTransition")]
SessionFields(sf) ==
    IF Len(sf) = 0 THEN EmptyRecord
    ELSE LET last == sf[Len(sf)]
         IN  [Session |-> <<last.Session>>, SessionMacro |-> <<last.Macro>>,
              SessionMicro |-> <<last.Micro>>,
              SessionTransition |-> <<last.Transition>>]

compute_latest_labels(name, yf, wf, dfr, sf) ==
    Merge(Merge(Merge(Merge([Entity |-> <<name>>], YearlyFields(yf)),
                      WeeklyFields(wf)), DailyFields(dfr)), SessionFields(sf))

(***************************************************************************)
(* The per-entity pipeline of the callers: classify four times, aggregate. *)
(***************************************************************************)
Bars ==
    { [High |-> 20, Low |-> 16, Close |-> 18],
      [High |-> 24, Low |-> 16, Close |-> 24],
      [High |-> 24, Low |-> 16, Close |-> 25],
      [High |-> 24, Low |-> 16, Close |-> 23],
      [High |-> 20, Low |-> 16, Close |-> 15],
      [High |-> 20, Low |-> 20, Close |-> 20],
      [High |-> 24, Low |-> 24, Close |-> 24] }
\* The series is a run of one repeated bar followed by up to MaxTail free bars.
PadBars ==
    { [High |-> 20, Low |-> 16, Close |-> 18],
      [High |-> 20, Low |-> 20, Close |-> 20] }
TailSeqs == UNION {[1..n -> Bars] : n \in 0..MaxTail}
\* A daily index, and an hourly one starting 14:00 UTC (09:00 New York, EST).
IndexKinds ==
    { [t0 |-> 0, step |-> 24, utcoff |-> 5],
      [t0 |-> 14, step |-> 1, utcoff |-> 5] }
Entities == {"X"}

(***************************************************************************)
(* Data fetch: _fetch_data_uncached                                        *)
(***************************************************************************)
OHLC == <<"Open", "High", "Low", "Close">>
\* pd.DataFrame(columns=["Open", "High", "Low", "Close"])
EmptyFrame == [columns |-> OHLC, rows |-> << >>]
NoFrame == [columns |-> << >>, rows |-> << >>]

Range(q) == {q[i] : i \in DOMAIN q}

\* Rows the provider may return: bar t with the cells named in holes missing.
ProviderRow(t, holes) ==
    [t |-> t,
     Open |-> IF "Open" \in holes THEN NaN ELSE <<18>>,
     High |-> IF "High" \in holes THEN NaN ELSE <<20>>,
     Low |-> IF "Low" \in holes THEN NaN ELSE <<16>>,
     Close |-> IF "Close" \in holes THEN NaN ELSE <<18>>]
Holes == { {}, {"Close"}, {"Open", "High"} }
ProviderRows ==
    UNION { { [i \in 1..n |-> ProviderRow(i, h[i])] : h \in [1..n -> Holes] }
            : n \in 1..MaxRows }
\* Column sets of a non-empty provider frame, after the MultiIndex flattening.
FullColumns == <<"Open", "High", "Low", "Close", "Adj Close", "Volume">>
ShortColumns == <<"Open", "High", "Low", "Volume">>

\* all(c in df.columns for c in cols)
HasAllCols(frame) == \A c \in Range(OHLC) : c \in Range(frame.columns)

\* Mutant: dropna(subset=["Close"]), only a missing Close discards the bar.
SelectDropNa_closeonly(frame) ==
    [columns |-> OHLC,
     rows |-> SelectSeq(frame.rows, LAMBDA r : r.Close # NaN)]

\* df[cols].dropna(): the four columns, the rows with no missing cell, in order.
SelectDropNa(frame) ==
    [columns |-> OHLC,
     rows |-> SelectSeq(frame.rows,
                        LAMBDA r : r.Open # NaN /\ r.High # NaN
                                   /\ r.Low # NaN /\ r.Close # NaN)]

(***************************************************************************)
(* Series algebra: resync_index, normalize_ohlc, ew_index_from_members,    *)
(* ohlc_divide.  A series is a sequence of bars in increasing timestamp    *)
(* order; a bar is [t, Open, High, Low, Close]; a value is the exact       *)
(* fraction num/den, or NaN.                                               *)
(***************************************************************************)
Cell(v) == [nan |-> FALSE, num |-> v, den |-> 1]
NaNCell == [nan |-> TRUE, num |-> 0, den |-> 1]

\* a * b
FMul(a, b) ==
    IF a.nan \/ b.nan THEN NaNCell
    ELSE [nan |-> FALSE, num |-> a.num * b.num, den |-> a.den * b.den]
\* a / b; a zero divisor that was not replaced leaves den = 0 (an infinity)
FDiv(a, b) ==
    IF a.nan \/ b.nan THEN NaNCell
    ELSE [nan |-> FALSE, num |-> a.num * b.den, den |-> a.den * b.num]
\* a + b
FAdd(a, b) ==
    IF a.nan \/ b.nan THEN NaNCell
    ELSE [nan |-> FALSE, num |-> a.num * b.den + b.num * a.den,
          den |-> a.den * b.den]
IsZero(a) == ~a.nan /\ a.num = 0 /\ a.den # 0

\* df.index as a set of timestamps
Stamps(sr) == {sr[i].t : i \in 1..Len(sr)}
\* df.loc[idx] / df.reindex(idx) for idx within the index of df
Loc(sr, idx) == SelectSeq(sr, LAMBDA r : r.t \in idx)
\* the row of df at timestamp t
RowAt(sr, t) == sr[CHOOSE i \in 1..Len(sr) : sr[i].t = t]
\* a frame is built over a sorted index
RECURSIVE SortedIndex(_)
SortedIndex(T) ==
    IF T = {} THEN << >>
    ELSE LET m == CHOOSE x \in T : \A z \in T : x <= z
         IN  <<m>> \o SortedIndex(T \ {m})
\* one row of df[["Open", "High", "Low", "Close"]] * scale
ScaleRow(r, scale) ==
    [t |-> r.t, Open |-> FMul(r.Open, scale), High |-> FMul(r.High, scale),
     Low |-> FMul(r.Low, scale), Close |-> FMul(r.Close, scale)]
\* DataFrame.dropna(): rows with no NaN cell
DropNa(sr) ==
    SelectSeq(sr, LAMBDA r : ~r.Open.nan /\ ~r.High.nan
                             /\ ~r.Low.nan /\ ~r.Close.nan)

\* resync_index(dfs): intersection of the indexes of the non-empty frames
resync_index(dfs) ==
    LET ne == {k \in DOMAIN dfs : Len(dfs[k]) > 0}
    IN  IF ne = {} THEN {}
        ELSE {t \in UNION {Stamps(dfs[k]) : k \in ne} :
                 \A k \in ne : t \in Stamps(dfs[k])}

\* Mutant: the scale is taken from the first Open.
normalize_ohlc_firstopen(frame, b) ==
    IF Len(frame) = 0 THEN frame
    ELSE LET first == frame[1].Open
             scale == IF ~IsZero(first) THEN FDiv(Cell(b), first) ELSE Cell(1)
         IN  [i \in 1..Len(frame) |->
                 ScaleRow(frame[i], scale)]

\* normalize_ohlc(df, base)
normalize_ohlc(frame, b) ==
    IF Len(frame) = 0 THEN frame
    ELSE LET first_close == frame[1].Close
             scale == IF ~IsZero(first_close)
                      THEN FDiv(Cell(b), first_close) ELSE Cell(1)
         IN  [i \in 1..Len(frame) |->
                 ScaleRow(frame[i], scale)]

RECURSIVE FSum(_)
FSum(q) == IF Len(q) = 0 THEN Cell(0) ELSE FAdd(q[1], FSum(Tail(q)))

\* Mutant: the row sum in place of the row mean.
RowMean_sum(q) ==
    LET ok == SelectSeq(q, LAMBDA c : ~c.nan)
    IN  IF Len(ok) = 0 THEN NaNCell ELSE FSum(ok)

\* merged[cols].mean(axis=1): the mean of the cells of a row that are not NaN
RowMean(q) ==
    LET ok == SelectSeq(q, LAMBDA c : ~c.nan)
    IN  IF Len(ok) = 0 THEN NaNCell ELSE FDiv(FSum(ok), Cell(Len(ok)))

\* pd.concat(frames, axis=1): the cells of one column name at timestamp t,
\* one per frame, NaN where the frame has no row at t
ConcatCells(frames, t, col) ==
    [k \in 1..Len(frames) |->
        IF t \in Stamps(frames[k]) THEN RowAt(frames[k], t)[col] ELSE NaNCell]

\* ew_index_from_members(ohlc_members, base); the dict is the sequence of
\* its values
ew_index_from_members(dfs, b) ==
    LET members == SelectSeq(dfs, LAMBDA v : Len(v) > 0)
    IN  IF Len(members) = 0 THEN << >>
        ELSE
        LET common_idx == resync_index(members)
            frames == [k \in 1..Len(members) |->
                         normalize_ohlc(IF common_idx # {}
                                        THEN DropNa(Loc(members[k], common_idx))
                                        ELSE members[k], b)]
            idx == SortedIndex(UNION {Stamps(frames[k]) : k \in 1..Len(frames)})
            merged == [i \in 1..Len(idx) |->
                         [t |-> idx[i],
                          Open |-> RowMean(ConcatCells(frames, idx[i], "Open")),
                          High |-> RowMean(ConcatCells(frames, idx[i], "High")),
                          Low |-> RowMean(ConcatCells(frames, idx[i], "Low")),
                          Close |-> RowMean(ConcatCells(frames, idx[i], "Close"))]]
        IN  DropNa(merged)

\* Mutant: zeros of the denominator are left in place.
ReplaceZero_none(c) == c

\* .replace(0, np.nan)
ReplaceZero(c) == IF IsZero(c) THEN NaNCell ELSE c

\* Mutant: every field is divided by the denominator's Close.
DivRow_byclose(n, dr) ==
    [t |-> n.t, Open |-> FDiv(n.Open, dr.Close), High |-> FDiv(n.High, dr.Close),
     Low |-> FDiv(n.Low, dr.Close), Close |-> FDiv(n.Close, dr.Close)]

\* n / d, column by column on one row
DivRow(n, dr) ==
    [t |-> n.t, Open |-> FDiv(n.Open, dr.Open), High |-> FDiv(n.High, dr.High),
     Low |-> FDiv(n.Low, dr.Low), Close |-> FDiv(n.Close, dr.Close)]

\* ohlc_divide(numer, denom)
ohlc_divide(numer, denom) ==
    IF Len(numer) = 0 \/ Len(denom) = 0 THEN << >>
    ELSE LET idx == Stamps(numer) \cap Stamps(denom)
         IN  IF idx = {} THEN << >>
             ELSE LET n == Loc(numer, idx)
                      dl == Loc(denom, idx)
                      dn == [i \in 1..Len(n) |->
                               [t |-> dl[i].t,
                                Open |-> ReplaceZero(dl[i].Open),
                                High |-> ReplaceZero(dl[i].High),
                                Low |-> ReplaceZero(dl[i].Low),
                                Close |-> ReplaceZero(dl[i].Close)]]
                  IN  DropNa([i \in 1..Len(n) |-> DivRow(n[i], dn[i])])

(***************************************************************************)
(* build_yahoo_composite: the geometric composite of four index slots.     *)
(* Member values are integers; a composite value is kept as the product of *)
(* the member values under an n-th root, zero, or NaN.                     *)
(***************************************************************************)
tickers == <<"^IXIC", "^GSPC", "^DJI", "^RUT">>
fallbacks == <<"QQQ", "SPY", "DIA", "IWM">>

\* Mutant: the fallback is never tried.
NeedsFallback_never(frame) == FALSE

\* if df.empty: fetch the fallback ticker
NeedsFallback(frame) == Len(frame) = 0

\* np.log: finite for a positive value, -inf for 0, NaN for a negative one
Log(v) ==
    IF v > 0 THEN [kind |-> "finite", of |-> v]
    ELSE IF v = 0 THEN [kind |-> "-inf", of |-> 1]
    ELSE [kind |-> "nan", of |-> 1]

RECURSIVE ProdOf(_)
ProdOf(q) == IF Len(q) = 0 THEN 1 ELSE q[1].of * ProdOf(Tail(q))

\* np.exp(np.log(cols).mean(axis=1)) on one row: the mean skips NaN, is
\* -inf as soon as one term is, and exp(-inf) is 0
GeoMean(vals) ==
    LET logs == SelectSeq([k \in 1..Len(vals) |-> Log(vals[k])],
                          LAMBDA l : l.kind # "nan")
    IN  IF Len(logs) = 0 THEN [nan |-> TRUE, zero |-> FALSE, prod |-> 1, n |-> 1]
        ELSE IF \E k \in 1..Len(logs) : logs[k].kind = "-inf"
             THEN [nan |-> FALSE, zero |-> TRUE, prod |-> 0, n |-> 1]
             ELSE [nan |-> FALSE, zero |-> FALSE,
                   prod |-> ProdOf(logs), n |-> Len(logs)]

\* the body of build_yahoo_composite after the fetch loop; data is the
\* sequence of the dict's items [key, df]
Compose(items) ==
    IF Len(items) = 0 THEN << >>
    ELSE LET idx == resync_index([k \in 1..Len(items) |-> items[k].df])
             frames == [k \in 1..Len(items) |-> Loc(items[k].df, idx)]
             ix == SortedIndex(idx)
             col(t, c) == GeoMean([k \in 1..Len(frames) |-> RowAt(frames[k], t)[c]])
             rows == [i \in 1..Len(ix) |->
                        [t |-> ix[i], Open |-> col(ix[i], "Open"),
                         High |-> col(ix[i], "High"), Low |-> col(ix[i], "Low"),
                         Close |-> col(ix[i], "Close")]]
         IN  DropNa(rows)

\* Mutant: range(retries + 1), one attempt too many.
LoopRunning_extra(a, n) == a < n + 1

\* for attempt in range(retries): the loop body runs while attempt < retries.
LoopRunning(a, n) == a < n

FetchIdle ==
    /\ retries = 0 /\ attempt = 0 /\ fpc = "idle"
    /\ calls = 0 /\ events = << >> /\ fetched = NoFrame /\ result = NoFrame

ClsIdle ==
    /\ df = << >> /\ index = [t0 |-> 0, step |-> 24, utcoff |-> 5]
    /\ entity = "X"
    /\ y = << >> /\ w = << >> /\ d = << >> /\ s = << >>
    /\ row = EmptyRecord /\ pc = "idle"

AlgIdle ==
    /\ ohlc_members = << >> /\ base = 100 /\ out = << >> /\ op = "idle"

AtrIdle == atr_period = 0 /\ atr_out = << >>

\* DataLoader.__init__ with an empty cache, and no caller
LoaderIdle ==
    /\ cache = << >> /\ now = 0 /\ ttl = 0 /\ oplog = << >>
    /\ loading_status = "idle" /\ progress = 0 /\ status_message = ""
    /\ callers = << >> /\ ncalls = 0

CompIdle ==
    /\ slot = 0 /\ cdf = << >> /\ data = << >> /\ fetchlog = << >>
    /\ comp = << >> /\ cpc = "idle"

InitFetch ==
    /\ ClsIdle /\ AlgIdle /\ CompIdle /\ AtrIdle /\ LoaderIdle
    /\ retries \in 0..MaxRetries
    /\ attempt = 0 /\ fpc = "loop"
    /\ calls = 0 /\ events = << >> /\ fetched = NoFrame /\ result = NoFrame

\* yf.download raises; the handler sleeps unless this was the last attempt.
ProviderRaises ==
    /\ fpc = "loop" /\ LoopRunning(attempt, retries)
    /\ calls' = calls + 1
    /\ events' = Append(events, "exception")
    /\ IF attempt < retries - 1
       THEN fpc' = "sleep" /\ attempt' = attempt
       ELSE fpc' = "loop" /\ attempt' = attempt + 1
    /\ UNCHANGED <<retries, fetched, result>>
    /\ UNCHANGED <<clsVars, algVars, compVars, atrVars, loaderVars>>

\* time.sleep(delay) in the except handler, then the next iteration.
Sleep ==
    /\ fpc = "sleep"
    /\ events' = Append(events, "sleep")
    /\ attempt' = attempt + 1
    /\ fpc' = "loop"
    /\ UNCHANGED <<retries, calls, fetched, result>>
    /\ UNCHANGED <<clsVars, algVars, compVars, atrVars, loaderVars>>

\* yf.download returns an empty frame: nothing is returned, the loop goes on.
ProviderEmpty ==
    /\ fpc = "loop" /\ LoopRunning(attempt, retries)
    /\ calls' = calls + 1
    /\ events' = Append(events, "empty")
    /\ \E cols \in {FullColumns, ShortColumns} :
          fetched' = [columns |-> cols, rows |-> << >>]
    /\ attempt' = attempt + 1
    /\ UNCHANGED <<retries, fpc, result>>
    /\ UNCHANGED <<clsVars, algVars, compVars, atrVars, loaderVars>>

\* yf.download returns rows but lacks one of the four columns.
ProviderMissingColumn ==
    /\ fpc = "loop" /\ LoopRunning(attempt, retries)
    /\ calls' = calls + 1
    /\ events' = Append(events, "missing")
    /\ \E rows \in ProviderRows :
          /\ fetched' = [columns |-> ShortColumns, rows |-> rows]
          /\ ~HasAllCols(fetched')
    /\ attempt' = attempt + 1
    /\ UNCHANGED <<retries, fpc, result>>
    /\ UNCHANGED <<clsVars, algVars, compVars, atrVars, loaderVars>>

\* yf.download returns rows with the four columns: return df[cols].dropna().
ProviderUsable ==
    /\ fpc = "loop" /\ LoopRunning(attempt, retries)
    /\ calls' = calls + 1
    /\ events' = Append(events, "usable")
    /\ \E rows \in ProviderRows :
          /\ fetched' = [columns |-> FullColumns, rows |-> rows]
          /\ HasAllCols(fetched')
    /\ result' = SelectDropNa(fetched')
    /\ fpc' = "returned"
    /\ UNCHANGED <<retries, attempt>>
    /\ UNCHANGED <<clsVars, algVars, compVars, atrVars, loaderVars>>

\* The loop is exhausted: return the empty OHLC frame.
ReturnEmpty ==
    /\ fpc = "loop" /\ ~LoopRunning(attempt, retries)
    /\ result' = EmptyFrame
    /\ fpc' = "returned"
    /\ UNCHANGED <<retries, attempt, calls, events, fetched>>
    /\ UNCHANGED <<clsVars, algVars, compVars, atrVars, loaderVars>>

NextFetch ==
    \/ ProviderRaises
    \/ Sleep
    \/ ProviderEmpty
    \/ ProviderMissingColumn
    \/ ProviderUsable
    \/ ReturnEmpty

SpecFetch == InitFetch /\ [][NextFetch]_vars


Init ==
    /\ \E k \in 0..MaxPad, p \in PadBars, tail \in TailSeqs :
          df = [i \in 1..k |-> p] \o tail
    /\ index \in IndexKinds
    /\ entity \in Entities
    /\ y = << >> /\ w = << >> /\ d = << >> /\ s = << >>
    /\ row = EmptyRecord
    /\ pc = "yearly"
    /\ FetchIdle /\ AlgIdle /\ CompIdle /\ AtrIdle /\ LoaderIdle

ClassifyYearly ==
    /\ pc = "yearly"
    /\ y' = classify_regime(df)
    /\ pc' = "weekly"
    /\ UNCHANGED <<df, index, entity, w, d, s, row>>
    /\ UNCHANGED <<fetchVars, algVars, compVars, atrVars, loaderVars>>

ClassifyWeekly ==
    /\ pc = "weekly"
    /\ w' = classify_weekly_regime(df)
    /\ pc' = "daily"
    /\ UNCHANGED <<df, index, entity, y, d, s, row>>
    /\ UNCHANGED <<fetchVars, algVars, compVars, atrVars, loaderVars>>

ClassifyDaily ==
    /\ pc = "daily"
    /\ d' = classify_daily_regime(df)
    /\ pc' = "session"
    /\ UNCHANGED <<df, index, entity, y, w, s, row>>
    /\ UNCHANGED <<fetchVars, algVars, compVars, atrVars, loaderVars>>

ClassifySession ==
    /\ pc = "session"
    /\ ~(Len(df) > 0 /\ InferFreqRaises(df))
    /\ s' = classify_session_regimes(df, index)
    /\ pc' = "aggregate"
    /\ UNCHANGED <<df, index, entity, y, w, d, row>>
    /\ UNCHANGED <<fetchVars, algVars, compVars, atrVars, loaderVars>>

\* infer_freq raises: the exception leaves the pipeline, no record is built.
ClassifySessionRaises ==
    /\ pc = "session"
    /\ Len(df) > 0 /\ InferFreqRaises(df)
    /\ pc' = "raised"
    /\ UNCHANGED <<df, index, entity, y, w, d, s, row>>
    /\ UNCHANGED <<fetchVars, algVars, compVars, atrVars, loaderVars>>

ComputeLatestLabels ==
    /\ pc = "aggregate"
    /\ row' = compute_latest_labels(entity, y, w, d, s)
    /\ pc' = "done"
    /\ UNCHANGED <<df, index, entity, y, w, d, s>>
    /\ UNCHANGED <<fetchVars, algVars, compVars, atrVars, loaderVars>>

Next ==
    \/ ClassifyYearly
    \/ ClassifyWeekly
    \/ ClassifyDaily
    \/ ClassifySession
    \/ ClassifySessionRaises
    \/ ComputeLatestLabels

Spec == Init /\ [][Next]_vars

(***************************************************************************)
(* classify_session_regimes called on its own, on short series and on      *)
(* daily, weekly, monthly and hourly indexes.                              *)
(***************************************************************************)
SessionIndexKinds ==
    IndexKinds \cup {[t0 |-> 0, step |-> 168, utcoff |-> 5],
                     [t0 |-> 0, step |-> 720, utcoff |-> 5]}
ShortSeqs == UNION { [1..n -> Bars] : n \in 0..MaxSess }

InitSession ==
    /\ df \in ShortSeqs
    /\ index \in SessionIndexKinds
    /\ entity \in Entities
    /\ y = << >> /\ w = << >> /\ d = << >> /\ s = << >>
    /\ row = EmptyRecord
    /\ pc = "session"
    /\ FetchIdle /\ AlgIdle /\ CompIdle /\ AtrIdle /\ LoaderIdle

NextSession ==
    \/ ClassifySession
    \/ ClassifySessionRaises

SpecSession == InitSession /\ [][NextSession]_vars

(***************************************************************************)
(* Series algebra applied to two input series.                             *)
(***************************************************************************)
\* Open, High, Low, Close of the bars an input series is made of: plain
\* bars, a bar with zero Open and Low, a bar with zero Low and Close.
AlgBarValues == << <<2, 4, 1, 2>>, <<4, 4, 2, 4>>, <<0, 4, 0, 2>>, <<2, 2, 0, 0>> >>
AlgBar(t, v) ==
    [t |-> t, Open |-> Cell(v[1]), High |-> Cell(v[2]),
     Low |-> Cell(v[3]), Close |-> Cell(v[4])]
\* The series with bar AlgBarValues[f[t]] at timestamp t, none where f[t] = 0.
MakeSeries(f) ==
    LET present == SelectSeq([t \in 1..MaxT |-> t], LAMBDA t : f[t] # 0)
    IN  [i \in 1..Len(present) |-> AlgBar(present[i], AlgBarValues[f[present[i]]])]
AlgSeries == {MakeSeries(f) : f \in [1..MaxT -> 0..Len(AlgBarValues)]}
Bases == {100, 10}

InitAlgebra ==
    /\ ohlc_members \in [1..2 -> AlgSeries]
    /\ base \in Bases
    /\ out = << >>
    /\ op = "none"
    /\ ClsIdle /\ FetchIdle /\ CompIdle /\ AtrIdle /\ LoaderIdle

\* ohlc_divide(numer, denom) on the two series
Divide ==
    /\ op = "none"
    /\ out' = ohlc_divide(ohlc_members[1], ohlc_members[2])
    /\ op' = "divide"
    /\ UNCHANGED <<ohlc_members, base>>
    /\ UNCHANGED <<clsVars, fetchVars, compVars, atrVars, loaderVars>>

\* normalize_ohlc(df, base) on the first series
Normalize ==
    /\ op = "none"
    /\ out' = normalize_ohlc(ohlc_members[1], base)
    /\ op' = "normalize"
    /\ UNCHANGED <<ohlc_members, base>>
    /\ UNCHANGED <<clsVars, fetchVars, compVars, atrVars, loaderVars>>

\* ew_index_from_members(ohlc_members, base) on both series
EqualWeight ==
    /\ op = "none"
    /\ out' = ew_index_from_members(ohlc_members, base)
    /\ op' = "ew"
    /\ UNCHANGED <<ohlc_members, base>>
    /\ UNCHANGED <<clsVars, fetchVars, compVars, atrVars, loaderVars>>

NextAlgebra ==
    \/ Divide
    \/ Normalize
    \/ EqualWeight

SpecAlgebra == InitAlgebra /\ [][NextAlgebra]_vars

(***************************************************************************)
(* build_yahoo_composite as a process: one fetch per step.                 *)
(***************************************************************************)
CompBar(t, v) == [t |-> t, Open |-> v[1], High |-> v[2], Low |-> v[3], Close |-> v[4]]
\* What fetch_data may return for a ticker: nothing, two bars, one bar, a
\* bar with zero fields, a bar with negative fields.
CompSeries ==
    { << >>,
      <<CompBar(1, <<2, 4, 1, 2>>), CompBar(2, <<8, 8, 4, 8>>)>>,
      <<CompBar(1, <<8, 8, 4, 8>>), CompBar(2, <<2, 4, 1, 2>>)>>,
      <<CompBar(2, <<2, 4, 1, 2>>)>>,
      <<CompBar(1, <<8, 8, 4, 8>>)>>,
      <<CompBar(1, <<0, 4, 0, 2>>), CompBar(2, <<2, 4, 1, 2>>)>>,
      <<CompBar(1, <<2, 4, 1, 2>>), CompBar(2, <<-2, 4, -2, 2>>)>> }

InitComposite ==
    /\ slot = 1 /\ cdf = << >> /\ data = << >> /\ fetchlog = << >>
    /\ comp = << >> /\ cpc = "fetch"
    /\ ClsIdle /\ FetchIdle /\ AlgIdle /\ AtrIdle /\ LoaderIdle

\* df = fetch_data(t, ...)
FetchPrimary ==
    /\ cpc = "fetch" /\ slot <= Len(tickers)
    /\ \E r \in CompSeries :
          /\ cdf' = r
          /\ fetchlog' = Append(fetchlog, [ticker |-> tickers[slot], df |-> r])
    /\ cpc' = "fetched"
    /\ UNCHANGED <<slot, data, comp>>
    /\ UNCHANGED <<clsVars, fetchVars, algVars, atrVars, loaderVars>>

\* df.empty: df = fetch_data(alt, ...); then data[t] = df unless df is empty
FetchFallback ==
    /\ cpc = "fetched" /\ NeedsFallback(cdf)
    /\ \E r \in CompSeries :
          /\ cdf' = r
          /\ fetchlog' = Append(fetchlog, [ticker |-> fallbacks[slot], df |-> r])
          /\ data' = IF Len(r) > 0
                     THEN Append(data, [key |-> tickers[slot], df |-> r])
                     ELSE data
    /\ slot' = slot + 1
    /\ cpc' = "fetch"
    /\ UNCHANGED comp
    /\ UNCHANGED <<clsVars, fetchVars, algVars, atrVars, loaderVars>>

\* not df.empty after the primary fetch: data[t] = df
KeepPrimary ==
    /\ cpc = "fetched" /\ ~NeedsFallback(cdf)
    /\ data' = IF Len(cdf) > 0
               THEN Append(data, [key |-> tickers[slot], df |-> cdf])
               ELSE data
    /\ slot' = slot + 1
    /\ cpc' = "fetch"
    /\ UNCHANGED <<cdf, fetchlog, comp>>
    /\ UNCHANGED <<clsVars, fetchVars, algVars, atrVars, loaderVars>>

\* the loop is over: build and return the composite
ComposeAll ==
    /\ cpc = "fetch" /\ slot > Len(tickers)
    /\ comp' = Compose(data)
    /\ cpc' = "done"
    /\ UNCHANGED <<slot, cdf, data, fetchlog>>
    /\ UNCHANGED <<clsVars, fetchVars, algVars, atrVars, loaderVars>>

NextComposite ==
    \/ FetchPrimary
    \/ FetchFallback
    \/ KeepPrimary
    \/ ComposeAll

SpecComposite == InitComposite /\ [][NextComposite]_vars

(***************************************************************************)
(* Ratio series.  ohlc_divide divides High by High and Low by Low, so a    *)
(* bar of a ratio series may have its High below its Low; the pipeline     *)
(* classifies such series and atr is computed on them.                     *)
(***************************************************************************)
RatioBars ==
    { [High |-> 16, Low |-> 20, Close |-> 18],
      [High |-> 16, Low |-> 20, Close |-> 17],
      [High |-> 16, Low |-> 20, Close |-> 22],
      [High |-> 20, Low |-> 16, Close |-> 18],
      [High |-> 20, Low |-> 16, Close |-> 30],
      [High |-> 20, Low |-> 16, Close |-> 15] }
RatioSeqs == UNION { [1..n -> RatioBars] : n \in 0..MaxRatioLen }

\* The per-entity pipeline on a ratio series.
InitRatio ==
    /\ df \in RatioSeqs
    /\ index \in IndexKinds
    /\ entity \in Entities
    /\ y = << >> /\ w = << >> /\ d = << >> /\ s = << >>
    /\ row = EmptyRecord
    /\ pc = "yearly"
    /\ FetchIdle /\ AlgIdle /\ CompIdle /\ AtrIdle /\ LoaderIdle

SpecRatio == InitRatio /\ [][Next]_vars

\* atr(df, period) called on a ratio series.
InitAtr ==
    /\ df \in RatioSeqs
    /\ index = [t0 |-> 0, step |-> 24, utcoff |-> 5]
    /\ entity = "X"
    /\ y = << >> /\ w = << >> /\ d = << >> /\ s = << >>
    /\ row = EmptyRecord
    /\ pc = "atr"
    /\ atr_period \in 1..MaxPeriod
    /\ atr_out = << >>
    /\ FetchIdle /\ AlgIdle /\ CompIdle /\ LoaderIdle

ComputeAtr ==
    /\ pc = "atr"
    /\ atr_out' = [i \in 1..Len(df) |-> atr(df, atr_period, i)]
    /\ pc' = "atr_done"
    /\ UNCHANGED <<df, index, entity, y, w, d, s, row, atr_period>>
    /\ UNCHANGED <<fetchVars, algVars, compVars, loaderVars>>

NextAtr == ComputeAtr

SpecAtr == InitAtr /\ [][NextAtr]_vars

(***************************************************************************)
(* DataCache and DataLoader.  Callers are coroutines on one event loop:    *)
(* the code between two awaits runs as one step.  A result dict is kept as *)
(* the ids of the call that filled its first and its last entry.           *)
(***************************************************************************)
CallerIds == {1, 2}
Kinds == {"market", "universe"}
\* cache_key of load_market_data and of load_universe_data
KeyOf(kind) ==
    IF kind = "market" THEN "market_data_2y_1d" ELSE "universe_data_u.csv_2y_1d"
NoData == [first |-> 0, last |-> 0]
Ttls == {1, 2}

\* Mutant: an entry is still served when it is exactly ttl old.
Fresh_le(ts, t, ttlv) == t - ts <= ttlv

\* datetime.now() - timestamp < timedelta(seconds=self.ttl)
Fresh(ts, t, ttlv) == t - ts < ttlv

\* DataCache.get: the value returned (NoData for None)
CacheGet(c, key, t, ttlv) ==
    IF key \in DOMAIN c /\ Fresh(c[key].timestamp, t, ttlv)
    THEN c[key].data ELSE NoData
\* DataCache.get: the cache afterwards, an expired entry is deleted
CacheAfterGet(c, key, t, ttlv) ==
    IF key \in DOMAIN c /\ ~Fresh(c[key].timestamp, t, ttlv)
    THEN [k \in DOMAIN c \ {key} |-> c[k]] ELSE c

\* Mutant: set updates the entry in place, keeping the first part of an
\* entry that is already there.
CacheSet_merge(c, key, val, t) ==
    [k \in DOMAIN c \cup {key} |->
        IF k = key
        THEN [data |-> IF key \in DOMAIN c
                       THEN [first |-> c[key].data.first, last |-> val.last]
                       ELSE val,
              timestamp |-> t]
        ELSE c[k]]

\* DataCache.set
CacheSet(c, key, val, t) ==
    [k \in DOMAIN c \cup {key} |->
        IF k = key THEN [data |-> val, timestamp |-> t] ELSE c[k]]

\* Mutant: the loop progress without its base value.
LoopProgress_nobase(lo, span, i, n) == (i * span) \div n

\* self.progress = 0.3 + (i / len(index_tickers)) * 0.4, and
\* self.progress = 0.2 + (i / len(tickers)) * 0.6, in sixtieths
LoopProgress(lo, span, i, n) == lo + (i * span) \div n

index_tickers == <<"^IXIC", "^GSPC", "^DJI", "^RUT">>
\* tickers of the universe CSV: one stock and its sector index
universe_tickers == <<"AAPL", "XLK">>

\* The values self.progress takes after the first block of a load, one per
\* block of code between awaits: 0.2, the index loop and 0.8 for market
\* data; the ticker loop and 0.8 for universe data.
ProgressSteps(kind) ==
    IF kind = "market"
    THEN <<12>> \o [i \in 1..Len(index_tickers) |->
                      LoopProgress(18, 24, i - 1, Len(index_tickers))] \o <<48>>
    ELSE [i \in 1..Len(universe_tickers) |->
             LoopProgress(12, 36, i - 1, Len(universe_tickers))] \o <<48>>

\* An exception raised while the call waits after its k-th block reaches
\* the outer handler unless the call is inside a loop, whose body catches it.
CanFail(kind, k) ==
    IF kind = "market"
    THEN k \notin 2..(1 + Len(index_tickers))
    ELSE k \notin 1..Len(universe_tickers)

IdleCaller ==
    [pc |-> "idle", kind |-> "market", id |-> 0, k |-> 0, local |-> NoData,
     ret |-> NoData, outcome |-> "none", forced |-> FALSE, written |-> << >>]

InitLoader ==
    /\ cache = << >> /\ now = 0 /\ ttl \in Ttls /\ oplog = << >>
    /\ loading_status = "idle" /\ progress = 0 /\ status_message = ""
    /\ callers = [c \in CallerIds |-> IdleCaller]
    /\ ncalls = 0
    /\ ClsIdle /\ FetchIdle /\ AlgIdle /\ CompIdle /\ AtrIdle

\* self.status_message while the call waits after its k-th block
Message(kind, k) ==
    IF kind = "market"
    THEN CASE k = 0 -> "Loading composite market data..."
           [] k = 1 -> "Loading VIX data..."
           [] k \in 2..(1 + Len(index_tickers)) -> "Loading major indices..."
           [] OTHER -> "Calculating market regimes..."
    ELSE CASE k = 0 -> "Loading universe from u.csv..."
           [] k \in 1..Len(universe_tickers) -> "Loading ticker data..."
           [] OTHER -> "Building sub-industry indices..."

Loaded(kind) ==
    IF kind = "market" THEN "Market data loaded successfully"
    ELSE "Universe data loaded successfully from u.csv"

Failed(kind) ==
    IF kind = "market" THEN "Error loading market data: e"
    ELSE "Error loading universe data: e"

LogEntry(o, key, val, c) ==
    [op |-> o, key |-> key, val |-> val, t |-> now, by |-> c]

\* load_market_data / load_universe_data up to their first await.  A force
\* refresh clears the cache and calls load_market_data with no await between.
Call(c, kind, forced) ==
    /\ callers[c].pc # "loading"
    /\ ncalls < MaxCalls
    /\ forced => kind = "market"
    /\ LET key == KeyOf(kind)
           c0 == IF forced THEN << >> ELSE cache
           log0 == IF forced THEN Append(oplog, LogEntry("clear", "", NoData, c))
                   ELSE oplog
           cached_data == CacheGet(c0, key, now, ttl)
           id == ncalls + 1
       IN /\ cache' = CacheAfterGet(c0, key, now, ttl)
          /\ oplog' = Append(log0, LogEntry("get", key, cached_data, c))
          /\ ncalls' = id
          /\ IF cached_data # NoData
             THEN /\ callers' = [callers EXCEPT ![c] =
                         [pc |-> "returned", kind |-> kind, id |-> id, k |-> 0,
                          local |-> NoData, ret |-> cached_data,
                          outcome |-> "hit", forced |-> forced,
                          written |-> << >>]]
                  /\ UNCHANGED <<loading_status, progress, status_message>>
             ELSE /\ callers' = [callers EXCEPT ![c] =
                         [pc |-> "loading", kind |-> kind, id |-> id, k |-> 0,
                          local |-> NoData, ret |-> NoData,
                          outcome |-> "none", forced |-> forced,
                          written |-> <<0, 6>>]]
                  /\ loading_status' = "loading"
                  /\ progress' = 6
                  /\ status_message' = Message(kind, 0)
    /\ UNCHANGED <<now, ttl>>
    /\ UNCHANGED <<clsVars, fetchVars, algVars, compVars, atrVars>>

\* The next block of a load: the awaited fetch returned, its result goes
\* into the local dict, progress and message are written, the call waits.
Step(c) ==
    /\ callers[c].pc = "loading"
    /\ callers[c].k < Len(ProgressSteps(callers[c].kind))
    /\ LET k1 == callers[c].k + 1
           p == ProgressSteps(callers[c].kind)[k1]
       IN /\ progress' = p
          /\ status_message' = Message(callers[c].kind, k1)
          /\ callers' = [callers EXCEPT ![c].k = k1,
                                        ![c].local.first = callers[c].id,
                                        ![c].written = Append(@, p)]
    /\ UNCHANGED <<cache, now, ttl, oplog, loading_status, ncalls>>
    /\ UNCHANGED <<clsVars, fetchVars, algVars, compVars, atrVars>>

\* The last block: progress 1.0, "completed", cache.set, return.
Finish(c) ==
    /\ callers[c].pc = "loading"
    /\ callers[c].k = Len(ProgressSteps(callers[c].kind))
    /\ LET market_data == [callers[c].local EXCEPT !.last = callers[c].id]
           key == KeyOf(callers[c].kind)
       IN /\ progress' = 60
          /\ status_message' = Loaded(callers[c].kind)
          /\ loading_status' = "completed"
          /\ cache' = CacheSet(cache, key, market_data, now)
          /\ oplog' = Append(oplog, LogEntry("set", key, market_data, c))
          /\ callers' = [callers EXCEPT ![c].pc = "returned",
                                        ![c].local = market_data,
                                        ![c].ret = market_data,
                                        ![c].outcome = "completed",
                                        ![c].written = Append(@, 60)]
    /\ UNCHANGED <<now, ttl, ncalls>>
    /\ UNCHANGED <<clsVars, fetchVars, algVars, compVars, atrVars>>

\* except Exception: "error", the message, re-raise.
Fail(c) ==
    /\ callers[c].pc = "loading"
    /\ CanFail(callers[c].kind, callers[c].k)
    /\ loading_status' = "error"
    /\ status_message' = Failed(callers[c].kind)
    /\ callers' = [callers EXCEPT ![c].pc = "raised", ![c].outcome = "error"]
    /\ UNCHANGED <<cache, now, ttl, oplog, progress, ncalls>>
    /\ UNCHANGED <<clsVars, fetchVars, algVars, compVars, atrVars>>

\* Time passes between steps of the event loop.
Tick ==
    /\ now < MaxTime
    /\ now' = now + 1
    /\ UNCHANGED <<cache, ttl, oplog, loading_status, progress,
                   status_message, callers, ncalls>>
    /\ UNCHANGED <<clsVars, fetchVars, algVars, compVars, atrVars>>

Load(c) == \E kind \in Kinds : Call(c, kind, FALSE)
ForceRefresh(c) == Call(c, "market", TRUE)

NextLoader ==
    \/ \E c \in CallerIds : Load(c)
    \/ \E c \in CallerIds : ForceRefresh(c)
    \/ \E c \in CallerIds : Step(c)
    \/ \E c \in CallerIds : Finish(c)
    \/ \E c \in CallerIds : Fail(c)
    \/ Tick

SpecLoader == InitLoader /\ [][NextLoader]_vars

(***************************************************************************)
(* Views used by the properties: every classified bar of the three rolling *)
(* frames, with the timeframe's window and ATR period, and the session     *)
(* rows.                                                                   *)
(***************************************************************************)
YearlyBars ==
    { [tf |-> "yearly", i |-> i, window |-> 28, atr_len |-> 20,
       Macro |-> y[i].Macro, Micro |-> y[i].Micro, Transition |-> y[i].Transition,
       Close |-> y[i].Close, Hi |-> y[i].Hi, Lo |-> y[i].Lo, Mid |-> y[i].Mid]
      : i \in {j \in 1..Len(y) : ~y[j].isna} }
WeeklyBars ==
    { [tf |-> "weekly", i |-> i, window |-> 5, atr_len |-> 14,
       Macro |-> w[i].WeeklyMacro, Micro |-> w[i].WeeklyMicro,
       Transition |-> w[i].WeeklyTransition,
       Close |-> w[i].Close, Hi |-> w[i].Hi, Lo |-> w[i].Lo, Mid |-> w[i].Mid]
      : i \in {j \in 1..Len(w) : ~w[j].isna} }
DailyBars ==
    { [tf |-> "daily", i |-> i, window |-> 1, atr_len |-> 14,
       Macro |-> d[i].DailyMacro, Micro |-> d[i].DailyMicro,
       Transition |-> d[i].DailyTransition,
       Close |-> d[i].Close, Hi |-> d[i].Hi, Lo |-> d[i].Lo, Mid |-> d[i].Mid]
      : i \in {j \in 1..Len(d) : ~d[j].isna} }
ClassifiedBars == YearlyBars \cup WeeklyBars \cup DailyBars
\* The pipeline has ended: the record is built, or infer_freq raised.  Frames
\* are written once and never changed, so what holds of them here holds of
\* them in every earlier state.
Finished == pc \in {"done", "raised"}
SessionBars == {s[k] : k \in 1..Len(s)}

MacroLabels == {"Strong Bull", "Weak Bull", "Strong Bear", "Weak Bear", "Neutral"}

\* The macro rule of the specification, as five mutually exclusive cases.
MacroRule(r) ==
    /\ r.Macro \in MacroLabels
    /\ r.Macro = "Strong Bull" <=> (r.Close > r.Mid /\ r.Close > r.Hi)
    /\ r.Macro = "Weak Bull" <=> (r.Close > r.Mid /\ ~(r.Close > r.Hi))
    /\ r.Macro = "Strong Bear" <=> (r.Close < r.Mid /\ r.Close < r.Lo)
    /\ r.Macro = "Weak Bear" <=> (r.Close < r.Mid /\ ~(r.Close < r.Lo))
    /\ r.Macro = "Neutral" <=> (r.Close = r.Mid)

\* C1: every classified bar (lo <= mid <= hi) of the yearly, weekly, daily and
\* session classifiers carries exactly one of the five macro labels, decided
\* in the order StrongBull, WeakBull, StrongBear, WeakBear, Neutral; a bar
\* whose close equals mid is Neutral.
C1_MacroRule ==
    Finished =>
        \A r \in ClassifiedBars \cup SessionBars :
            (r.Lo <= r.Mid /\ r.Mid <= r.Hi) => MacroRule(r)

\* C1 witness: a finished pipeline whose frames show a Neutral bar with
\* close = mid, a StrongBull bar, a StrongBear bar and a session row.
C1_Witness ==
    /\ pc = "done"
    /\ \E r \in YearlyBars : r.Macro = "Neutral" /\ r.Close = r.Mid
    /\ \E r \in DailyBars : r.Macro = "Strong Bull"
    /\ \E r \in WeeklyBars : r.Macro = "Strong Bear"
    /\ \E r \in SessionBars : r.Macro \in MacroLabels

\* The transition rule of the specification for a bar with ATR num/den and
\* threshold 0.5: dist < 0.5 is 2 * delta * den < num when num > 0.
TransitionRule(r, a) ==
    LET nearHi == 2 * (r.Hi - r.Close) * a.den < a.num
        nearLo == 2 * (r.Close - r.Lo) * a.den < a.num
        ruleA == r.Close < r.Hi /\ r.Close > r.Mid /\ nearHi
        ruleB == r.Close > r.Hi /\ nearHi
        ruleC == r.Close > r.Lo /\ r.Close < r.Mid /\ nearLo
        ruleD == r.Close < r.Lo /\ nearLo
    IN  IF a.num <= 0 THEN r.Transition = "None"
        ELSE r.Transition =
               (IF ruleA THEN "Approaching Weak Bull"
                ELSE IF ruleB THEN "Approaching Strong Bull"
                ELSE IF ruleC THEN "Approaching Weak Bear"
                ELSE IF ruleD THEN "Approaching Strong Bear"
                ELSE "None")

\* The ATR of bar i recomputed from the series: mean true range of the last
\* min(i, period) bars.
AtrOf(r) == atr(df, r.atr_len, r.i)

\* C2: for every classified bar, the transition is None when ATR <= 0 and
\* otherwise the first match of (a) ApproachingWeakBull, (b)
\* ApproachingStrongBull, (c) ApproachingWeakBear, (d) ApproachingStrongBear,
\* else None, with threshold 0.5 ATR.
C2_TransitionRule ==
    Finished =>
        /\ \A r \in ClassifiedBars : TransitionRule(r, AtrOf(r))
        /\ \A r \in SessionBars : TransitionRule(r, atr(df, 14, Len(df)))

\* C2 witness: one finished pipeline showing a zero-ATR bar, a Weak-zone bar
\* farther than the threshold from its boundary, and a bar past the boundary.
C2_Witness ==
    /\ pc = "done"
    /\ \E r \in ClassifiedBars : AtrOf(r).num = 0 /\ r.Transition = "None"
    /\ \E r \in ClassifiedBars :
          /\ AtrOf(r).num > 0 /\ r.Close < r.Hi /\ r.Close > r.Mid
          /\ r.Transition = "None"
    /\ \E r \in ClassifiedBars :
          r.Transition \in {"Approaching Strong Bull", "Approaching Strong Bear"}

\* The 5-bar and 10-bar simple moving averages of close over bars up to and
\* including i, as sums; each is defined only once that many bars exist and
\* a comparison with an undefined average is false.
CloseSum(i, len) == SumOver([j \in 1..Len(df) |-> df[j].Close], i - len + 1, i)
FastAboveSlow(i) == i >= 10 /\ 2 * CloseSum(i, 5) > CloseSum(i, 10)
FastBelowSlow(i) == i >= 10 /\ 2 * CloseSum(i, 5) < CloseSum(i, 10)

\* C3: for every classified bar i the micro label follows from the fast
\* (5-bar) and slow (10-bar) moving averages of close over bars up to i:
\* Bull macro gives MicroBullPlus if fast > slow else MicroBear; Bear macro
\* gives MicroBear if fast < slow else MicroBull; Neutral gives Neutral.
C3_MicroRule ==
    Finished =>
        \A r \in ClassifiedBars :
            /\ r.Macro \in {"Strong Bull", "Weak Bull"} =>
                  r.Micro = (IF FastAboveSlow(r.i) THEN "Micro Bull+" ELSE "Micro Bear")
            /\ r.Macro \in {"Strong Bear", "Weak Bear"} =>
                  r.Micro = (IF FastBelowSlow(r.i) THEN "Micro Bear" ELSE "Micro Bull")
            /\ r.Macro = "Neutral" => r.Micro = "Neutral"

\* C3 witness: a finished pipeline with a MicroBullPlus bar, a Bear-macro bar
\* labelled MicroBear because fast < slow, and a Neutral bar.
C3_Witness ==
    /\ pc = "done"
    /\ \E r \in ClassifiedBars : r.Micro = "Micro Bull+" /\ FastAboveSlow(r.i)
    /\ \E r \in ClassifiedBars :
          r.Macro \in {"Strong Bear", "Weak Bear"} /\ FastBelowSlow(r.i)
          /\ r.Micro = "Micro Bear"
    /\ \E r \in ClassifiedBars : r.Micro = "Neutral"

\* C4: in the yearly / weekly frame bar i is classified (labels and
\* snapshot) exactly when at least 28 / 5 bars up to it exist and every
\* earlier bar is a row of NaNs; a series shorter than the window has no
\* classified bar in that frame while the other frames are unaffected; the
\* daily frame classifies every bar.
C4_WindowFilled ==
    Finished =>
        /\ Len(y) = Len(df) /\ Len(w) = Len(df) /\ Len(d) = Len(df)
        /\ \A i \in 1..Len(y) : y[i].isna <=> i < 28
        /\ \A i \in 1..Len(w) : w[i].isna <=> i < 5
        /\ \A i \in 1..Len(d) : ~d[i].isna
        /\ Len(df) < 28 => YearlyBars = {}
        /\ Len(df) < 5 => WeeklyBars = {}
        /\ \A r \in ClassifiedBars :
              /\ r.Macro \in MacroLabels
              /\ r.Micro \in {"Micro Bull+", "Micro Bull", "Micro Bear", "Neutral"}
              /\ r.Transition \in {"Approaching Weak Bull", "Approaching Strong Bull",
                                   "Approaching Weak Bear", "Approaching Strong Bear",
                                   "None"}
              /\ r.Close = df[r.i].Close

\* C4 witness: a finished pipeline on a series of at least 28 bars whose 27th
\* yearly row is unlabelled and whose 28th is classified.
C4_Witness ==
    /\ pc = "done" /\ Len(df) >= 28
    /\ y[27].isna /\ ~y[28].isna
    /\ w[4].isna /\ ~w[5].isna

\* C4, the short-series case: a series of 5..27 bars has
\* weekly and daily classified bars and no yearly one.
C4_ShortSeries ==
    /\ pc = "done" /\ Len(df) >= 5 /\ Len(df) < 28
    /\ YearlyBars = {} /\ WeeklyBars # {} /\ DailyBars # {}

\* The 29-bar series of the scenario, in half-unit ticks (10 -> 20, 12 -> 24,
\* 8 -> 16, 12.5 -> 25): highs 20 x 28 then 24, lows all 16, last close c.
IsScenario29(c) ==
    /\ Len(df) = 29
    /\ \A i \in 1..28 : df[i].High = 20 /\ df[i].Low = 16
    /\ df[29].High = 24 /\ df[29].Low = 16 /\ df[29].Close = c

\* C5: in the rolling classifiers hi is the maximum high and lo the minimum
\* low over the trailing window that includes the current bar, mid is their
\* mean, and the macro comparisons are strict: the 29th yearly bar of the
\* scenario has hi=12, lo=8, mid=10 and is WeakBull at close 12 and
\* StrongBull at close 12.5.
C5_WindowHiLo ==
    Finished =>
        /\ \A r \in ClassifiedBars :
              /\ \A j \in (r.i - r.window + 1)..r.i :
                    df[j].High <= r.Hi /\ df[j].Low >= r.Lo
              /\ \E j \in (r.i - r.window + 1)..r.i : df[j].High = r.Hi
              /\ \E j \in (r.i - r.window + 1)..r.i : df[j].Low = r.Lo
              /\ 2 * r.Mid = r.Hi + r.Lo
        /\ (IsScenario29(24) \/ IsScenario29(25)) =>
              /\ y[29].Hi = 24 /\ y[29].Lo = 16 /\ y[29].Mid = 20
              /\ IsScenario29(24) => y[29].Macro = "Weak Bull"
              /\ IsScenario29(25) => y[29].Macro = "Strong Bull"

\* C5 witness: the scenario with last close 12, classified WeakBull.
C5_Witness ==
    /\ pc = "done" /\ IsScenario29(24)
    /\ y[29].Macro = "Weak Bull" /\ y[29].Close = y[29].Hi

\* C5, the other half of the scenario: last close 12.5 is reached too.
C5_Scenario125 ==
    pc = "done" /\ IsScenario29(25) /\ y[29].Macro = "Strong Bull"

FlatSeries == \A i \in 1..Len(df) : df[i].High = df[i].Low
Coincide(r) == r.Hi = r.Lo /\ r.Mid = r.Hi /\ r.Close = r.Hi

\* C6: in a series with high = low on every bar, every classified bar whose
\* hi, lo, mid and close coincide has macro Neutral and transition None,
\* whether its ATR is zero or positive.
C6_FlatNeutral ==
    (Finished /\ FlatSeries) =>
        \A r \in ClassifiedBars :
            Coincide(r) => r.Macro = "Neutral" /\ r.Transition = "None"

\* C6 witness: a flat series with one coinciding bar of zero ATR and another
\* of positive ATR, both classified.
C6_Witness ==
    /\ pc = "done" /\ FlatSeries
    /\ \E r \in ClassifiedBars : Coincide(r) /\ AtrOf(r).num = 0
    /\ \E r \in ClassifiedBars : Coincide(r) /\ AtrOf(r).num > 0

\* The cell of a rolling frame's last row: NaN in a row of NaNs.
LastOf(frame) == frame[Len(frame)]
CellIs(v, r, x) == IF r.isna THEN v = NaN ELSE v = <<x>>

YearlyKeys == {"Macro", "Micro", "Transition", "Close"}
WeeklyKeys == {"WeeklyMacro", "WeeklyMicro", "WeeklyTransition"}
DailyKeys == {"DailyMacro", "DailyMicro", "DailyTransition"}
SessionKeys == {"Session", "SessionMacro", "SessionMicro", "SessionTransition"}

\* C7: the record returned by aggregate holds Entity = name; each non-empty
\* frame contributes exactly its timeframe's fields with the values of its
\* last row; each empty frame contributes no field, so four empty frames give
\* exactly {Entity: name}.
C7_Aggregate ==
    pc = "done" =>
        /\ row["Entity"] = <<entity>>
        /\ DOMAIN row = {"Entity"}
              \cup (IF Len(y) > 0 THEN YearlyKeys ELSE {})
              \cup (IF Len(w) > 0 THEN WeeklyKeys ELSE {})
              \cup (IF Len(d) > 0 THEN DailyKeys ELSE {})
              \cup (IF Len(s) > 0 THEN SessionKeys ELSE {})
        /\ Len(y) > 0 =>
              LET r == LastOf(y)
              IN  /\ CellIs(row["Macro"], r, IF r.isna THEN "" ELSE r.Macro)
                  /\ CellIs(row["Micro"], r, IF r.isna THEN "" ELSE r.Micro)
                  /\ CellIs(row["Transition"], r, IF r.isna THEN "" ELSE r.Transition)
                  /\ CellIs(row["Close"], r, IF r.isna THEN 0 ELSE r.Close)
        /\ Len(w) > 0 =>
              LET r == LastOf(w)
              IN  /\ CellIs(row["WeeklyMacro"], r, IF r.isna THEN "" ELSE r.WeeklyMacro)
                  /\ CellIs(row["WeeklyMicro"], r, IF r.isna THEN "" ELSE r.WeeklyMicro)
                  /\ CellIs(row["WeeklyTransition"], r,
                            IF r.isna THEN "" ELSE r.WeeklyTransition)
        /\ Len(d) > 0 =>
              LET r == LastOf(d)
              IN  /\ row["DailyMacro"] = <<r.DailyMacro>>
                  /\ row["DailyMicro"] = <<r.DailyMicro>>
                  /\ row["DailyTransition"] = <<r.DailyTransition>>
        /\ Len(s) > 0 =>
              LET r == LastOf(s)
              IN  /\ row["Session"] = <<r.Session>>
                  /\ row["SessionMacro"] = <<r.Macro>>
                  /\ row["SessionMicro"] = <<r.Micro>>
                  /\ row["SessionTransition"] = <<r.Transition>>
        /\ (Len(y) = 0 /\ Len(w) = 0 /\ Len(d) = 0 /\ Len(s) = 0) =>
              row = [Entity |-> <<entity>>]

\* C7 witness: an aggregate over four non-empty frames whose last rows are
\* classified, the session frame holding several rows.
C7_Witness ==
    /\ pc = "done"
    /\ Len(y) > 0 /\ ~LastOf(y).isna /\ Len(w) > 0 /\ Len(d) > 0 /\ Len(s) > 1
    /\ row["Close"] = <<df[Len(df)].Close>>
    /\ row["Session"] = <<"NY PM">>

\* C7, the concrete scenario: four empty frames give exactly {Entity: "X"}.
C7_AllEmpty ==
    /\ pc = "done" /\ Len(y) = 0 /\ Len(w) = 0 /\ Len(d) = 0 /\ Len(s) = 0
    /\ row = [Entity |-> <<"X">>]

\* C8 as claimed: after classify and aggregate, a timeframe that produced no
\* classified bar contributes none of its fields to the summary record.
C8_NoOutputNoFields ==
    pc = "done" =>
        /\ YearlyBars = {} => DOMAIN row \cap YearlyKeys = {}
        /\ WeeklyBars = {} => DOMAIN row \cap WeeklyKeys = {}
        /\ DailyBars = {} => DOMAIN row \cap DailyKeys = {}
        /\ SessionBars = {} => DOMAIN row \cap SessionKeys = {}

Outcomes == {"exception", "empty", "missing", "usable"}
CallEvents == {i \in 1..Len(events) : events[i] \in Outcomes}
UsableEvents == {i \in 1..Len(events) : events[i] = "usable"}

\* C9: one fetch makes at most retries provider calls, returns at the first
\* call that yields a usable non-empty result without calling again, and
\* when no call does so it ends by returning an empty series with the four
\* OHLC columns; it never stops without returning.
C9_BoundedRetries ==
    /\ calls = Cardinality(CallEvents)
    /\ calls <= retries
    /\ UsableEvents # {} =>
          /\ fpc = "returned"
          /\ UsableEvents = {Len(events)}
          /\ result.columns = OHLC
          /\ \A i \in 1..Len(result.rows) :
                \E j \in 1..Len(fetched.rows) : result.rows[i] = fetched.rows[j]
    /\ (fpc = "returned" /\ UsableEvents = {}) =>
          /\ calls = retries
          /\ result = [columns |-> <<"Open", "High", "Low", "Close">>, rows |-> << >>]
    /\ fpc \in {"loop", "sleep", "returned"}
    /\ fpc # "returned" => ENABLED NextFetch

\* C9 witness: a fetch with retries = 3 that failed in three different ways
\* and returned the empty series.
C9_Witness ==
    /\ fpc = "returned" /\ retries = 3 /\ calls = 3
    /\ events = <<"exception", "sleep", "empty", "missing">>
    /\ result = EmptyFrame

\* C9, the other outcome: a usable result on the second call ends the fetch.
C9_ReturnsEarly ==
    /\ fpc = "returned" /\ retries = 3 /\ calls = 2
    /\ events[Len(events)] = "usable" /\ Len(result.rows) > 0

\* C10 as claimed: within one fetch every failed attempt that is followed by
\* another attempt is followed first by the inter-attempt delay, whether it
\* raised or returned an empty or unusable result.
C10_DelayBetweenAttempts ==
    \A i \in CallEvents, j \in CallEvents :
        i < j => \E k \in (i + 1)..(j - 1) : events[k] = "sleep"

\* Timestamps of the provider's bars that carry all four OHLC fields.
CompleteStamps ==
    {fetched.rows[j].t : j \in {k \in 1..Len(fetched.rows) :
        /\ fetched.rows[k].Open # << >> /\ fetched.rows[k].High # << >>
        /\ fetched.rows[k].Low # << >> /\ fetched.rows[k].Close # << >>}}

\* C11: when a provider call succeeds, the fetch returns exactly the columns
\* Open, High, Low, Close and exactly the provider's bars in which all four
\* fields are present, unchanged and in the provider's order; a bar missing
\* any of the four is discarded.
C11_CompleteBarsOnly ==
    UsableEvents # {} =>
        /\ result.columns = <<"Open", "High", "Low", "Close">>
        /\ {result.rows[i].t : i \in 1..Len(result.rows)} = CompleteStamps
        /\ \A i \in 1..Len(result.rows) :
              \E j \in 1..Len(fetched.rows) : result.rows[i] = fetched.rows[j]
        /\ \A i \in 1..Len(result.rows), j \in 1..Len(result.rows) :
              i < j => result.rows[i].t < result.rows[j].t

\* C11 witness: the provider gave two bars, the first lacking Open and High;
\* only the second was returned.
C11_Witness ==
    /\ fpc = "returned" /\ UsableEvents # {}
    /\ Len(fetched.rows) = 2
    /\ fetched.rows[1].Open = << >> /\ fetched.rows[1].Close # << >>
    /\ Len(result.rows) = 1 /\ result.rows[1].t = 2

\* C12 as claimed: no core operation raises, whatever series it is given;
\* here, the per-entity pipeline of the four classifiers and the aggregator
\* never ends in an exception.
C12_NeverRaises == pc # "raised"

\* C20 as claimed: session classification of a series sampled daily or more
\* coarsely returns an empty frame, whatever its content and length.
C20_CoarseIsEmpty ==
    (index.step >= 24 /\ pc # "session") => (pc = "aggregate" /\ s = << >>)

\* C20, the part that holds: with three bars or more the coarse series
\* yields an empty frame, by the frequency guard or by an empty mask.
C20_ThreeOrMore ==
    (index.step >= 24 /\ Len(df) >= 3 /\ pc # "session") =>
        (pc = "aggregate" /\ s = << >>)

\* The two inputs of divide and the value of a cell as a pair of integers.
Numer == ohlc_members[1]
Denom == ohlc_members[2]
BarAt(sr, t) == sr[CHOOSE i \in 1..Len(sr) : sr[i].t = t]
TimesOf(sr) == {sr[i].t : i \in 1..Len(sr)}
Increasing(sr) == \A i \in 1..Len(sr), j \in 1..Len(sr) : i < j => sr[i].t < sr[j].t
\* cell c equals the quotient a / b of two integers, b # 0
IsQuot(c, a, b) == ~c.nan /\ c.den # 0 /\ c.num * b = a * c.den

\* C13: divide(n, d) has a bar at exactly the timestamps common to n and d
\* at which all four denominator fields are non-zero, each field being the
\* numerator field over the denominator field; a bar with a zero in any
\* denominator field is dropped whole; the result is empty when either
\* input is empty or they share no timestamp.
C13_Divide ==
    op = "divide" =>
        /\ TimesOf(out) =
              {t \in TimesOf(Numer) \cap TimesOf(Denom) :
                  \A f \in {"Open", "High", "Low", "Close"} :
                      BarAt(Denom, t)[f].num # 0}
        /\ Increasing(out)
        /\ \A i \in 1..Len(out) : \A f \in {"Open", "High", "Low", "Close"} :
              IsQuot(out[i][f], BarAt(Numer, out[i].t)[f].num,
                     BarAt(Denom, out[i].t)[f].num)
        /\ (Numer = << >> \/ Denom = << >>
            \/ TimesOf(Numer) \cap TimesOf(Denom) = {}) => out = << >>

\* C13 witness: two shared timestamps, the denominator has a zero field at
\* the first and none at the second; only the second bar is in the result.
C13_Witness ==
    /\ op = "divide"
    /\ TimesOf(Numer) = {1, 2} /\ TimesOf(Denom) = {1, 2}
    /\ BarAt(Denom, 1).Low.num = 0 /\ BarAt(Denom, 1).Close.num # 0
    /\ TimesOf(out) = {2}
    /\ out[1].High.num # out[1].High.den

NoZeroField(sr) ==
    \A i \in 1..Len(sr) : \A f \in {"Open", "High", "Low", "Close"} :
        sr[i][f].num # 0

\* C14: for a non-empty series X with no zero Open, High, Low or Close,
\* divide(X, X) has the timestamps of X and every field equal to 1.
C14_SelfRatio ==
    (op = "divide" /\ Numer = Denom /\ Numer # << >> /\ NoZeroField(Numer)) =>
        /\ Len(out) = Len(Numer)
        /\ \A i \in 1..Len(out) :
              /\ out[i].t = Numer[i].t
              /\ \A f \in {"Open", "High", "Low", "Close"} :
                    IsQuot(out[i][f], 1, 1)

\* C14 witness: a two-bar series without zeros divided by itself.
C14_Witness ==
    /\ op = "divide" /\ Numer = Denom /\ Len(Numer) = 2 /\ NoZeroField(Numer)
    /\ Numer[1].High.num # Numer[1].Close.num
    /\ Len(out) = 2

\* The input of normalize and its first close.
Input == ohlc_members[1]
FirstClose == Input[1].Close.num

\* C15: normalize(X, base) multiplies every OHLC value of X by
\* base / first_close, so the first close of the result is base and the
\* ratios between values are those of X; when the first close is zero the
\* result is the four OHLC columns of X unchanged, and nothing is raised.
C15_Normalize ==
    op = "normalize" =>
        /\ Len(out) = Len(Input)
        /\ (Input # << >> /\ FirstClose # 0) =>
              /\ \A i \in 1..Len(out) :
                    /\ out[i].t = Input[i].t
                    /\ \A f \in {"Open", "High", "Low", "Close"} :
                          IsQuot(out[i][f], Input[i][f].num * base, FirstClose)
              /\ IsQuot(out[1].Close, base, 1)
              /\ \A i \in 1..Len(out), j \in 1..Len(out) :
                    \A f \in {"Open", "High", "Low", "Close"},
                       g \in {"Open", "High", "Low", "Close"} :
                        out[i][f].num * out[j][g].den * Input[j][g].num
                            = out[j][g].num * out[i][f].den * Input[i][f].num
        /\ (Input # << >> /\ FirstClose = 0) =>
              \A i \in 1..Len(out) :
                    /\ out[i].t = Input[i].t
                    /\ \A f \in {"Open", "High", "Low", "Close"} :
                          IsQuot(out[i][f], Input[i][f].num, 1)

\* C15 witness: a two-bar series with first close 2, normalized to base 10;
\* the second bar differs from the first.
C15_Witness ==
    /\ op = "normalize" /\ base = 10 /\ Len(Input) = 2
    /\ FirstClose = 2 /\ Input[1].Open.num = 0 /\ Input[2].Close.num = 4
    /\ Len(out) = 2 /\ IsQuot(out[2].Close, 20, 1)

\* C15, the zero case: a series whose first close is zero comes back as is.
C15_ZeroFirstClose ==
    /\ op = "normalize" /\ Len(Input) = 2 /\ FirstClose = 0
    /\ base = 100 /\ out = Input

\* The members of the equal-weight composite that are not empty, and the
\* timestamps common to all of them.
NonEmptyMembers == {k \in 1..Len(ohlc_members) : ohlc_members[k] # << >>}
CommonTimes ==
    {t \in UNION {TimesOf(ohlc_members[k]) : k \in NonEmptyMembers} :
        \A k \in NonEmptyMembers : t \in TimesOf(ohlc_members[k])}

\* C16 as claimed: the equal-weight composite is empty whenever no member is
\* non-empty and whenever the non-empty members have no timestamp common to
\* all of them; it never has a bar at a timestamp missing from some
\* non-empty member.
C16_EmptyWithoutCommon ==
    op = "ew" =>
        /\ NonEmptyMembers = {} => out = << >>
        /\ CommonTimes = {} => out = << >>
        /\ \A i \in 1..Len(out) : out[i].t \in CommonTimes

\* C16, the part that holds: with a common timestamp, or with no non-empty
\* member, the composite has bars at common timestamps only.
C16_AlignedCase ==
    (op = "ew" /\ (NonEmptyMembers = {} \/ CommonTimes # {})) =>
        TimesOf(out) = CommonTimes

\* The scale normalize applies to member k once aligned to the common
\* timestamps, as the pair numerator, denominator.
FirstCommon == CHOOSE t \in CommonTimes : \A z \in CommonTimes : t <= z
AlignedFirstClose(k) == BarAt(ohlc_members[k], FirstCommon).Close.num
ScaleOf(k) ==
    IF AlignedFirstClose(k) # 0 THEN <<base, AlignedFirstClose(k)>> ELSE <<1, 1>>

\* C17: the equal-weight composite of two members that are both the same
\* non-empty series S with non-zero first close equals normalize(S, base) on
\* every bar and field; in general its value at each common bar and field is
\* the arithmetic mean, across the non-empty members, of the members'
\* independently normalized values.
C17_MeanOfNormalized ==
    (op = "ew" /\ CommonTimes # {}) =>
        /\ TimesOf(out) = CommonTimes /\ Increasing(out)
        /\ (ohlc_members[1] = ohlc_members[2] /\ ohlc_members[1][1].Close.num # 0) =>
              \A i \in 1..Len(out) : \A f \in {"Open", "High", "Low", "Close"} :
                  IsQuot(out[i][f], ohlc_members[1][i][f].num * base,
                         ohlc_members[1][1].Close.num)
        /\ NonEmptyMembers = {1, 2} =>
              \A i \in 1..Len(out) : \A f \in {"Open", "High", "Low", "Close"} :
                  LET a == BarAt(ohlc_members[1], out[i].t)[f].num
                      b == BarAt(ohlc_members[2], out[i].t)[f].num
                      sa == ScaleOf(1)
                      sb == ScaleOf(2)
                  IN  IsQuot(out[i][f], a * sa[1] * sb[2] + b * sb[1] * sa[2],
                             2 * sa[2] * sb[2])
        /\ \A k \in {1, 2} : NonEmptyMembers = {k} =>
              \A i \in 1..Len(out) : \A f \in {"Open", "High", "Low", "Close"} :
                  IsQuot(out[i][f],
                         BarAt(ohlc_members[k], out[i].t)[f].num * ScaleOf(k)[1],
                         ScaleOf(k)[2])

\* C17 witness: two different members sharing timestamp 2 only, with first
\* aligned closes 2 and 4; the composite close at 2 is base.
C17_Witness ==
    /\ op = "ew" /\ base = 100
    /\ TimesOf(ohlc_members[1]) = {1, 2} /\ TimesOf(ohlc_members[2]) = {2}
    /\ BarAt(ohlc_members[1], 2).Close.num = 2
    /\ BarAt(ohlc_members[2], 2).Close.num = 4
    /\ Len(out) = 1 /\ IsQuot(out[1].Close, 100, 1)
    /\ ~IsQuot(out[1].High, 100, 1)

\* C17, the identical-members case: both members are one two-bar series.
C17_TwiceTheSame ==
    /\ op = "ew" /\ ohlc_members[1] = ohlc_members[2]
    /\ Len(ohlc_members[1]) = 2 /\ ohlc_members[1][1].Close.num = 2
    /\ Len(out) = 2

\* The members that contribute to the geometric composite, the timestamps
\* common to all of them, and the values they have at a timestamp.
Contributing == {data[k].df : k \in 1..Len(data)}
CommonStamps ==
    {t \in UNION {TimesOf(m) : m \in Contributing} :
        \A m \in Contributing : t \in TimesOf(m)}
AllPositiveAt(t) ==
    \A k \in 1..Len(data) : \A f \in {"Open", "High", "Low", "Close"} :
        BarAt(data[k].df, t)[f] > 0
RECURSIVE ProductAt(_, _, _)
ProductAt(k, t, f) ==
    IF k = 0 THEN 1 ELSE BarAt(data[k].df, t)[f] * ProductAt(k - 1, t, f)

\* C18 as claimed: every bar of the geometric composite has each of its four
\* fields equal to the geometric mean of strictly positive member values; a
\* bar at which some contributing member has a non-positive value in any
\* field does not appear in the output; no output field is ever zero.
C18_GeometricMean ==
    cpc = "done" =>
        /\ \A i \in 1..Len(comp) : \A f \in {"Open", "High", "Low", "Close"} :
              /\ ~comp[i][f].nan /\ ~comp[i][f].zero
              /\ comp[i][f].n = Len(data)
              /\ comp[i][f].prod = ProductAt(Len(data), comp[i].t, f)
        /\ \A t \in CommonStamps : ~AllPositiveAt(t) => t \notin TimesOf(comp)

\* C18, the part that holds: where every member value is positive, each
\* field is the root of order Len(data) of the product of the member values.
C18_PositiveBars ==
    cpc = "done" =>
        \A i \in 1..Len(comp) : AllPositiveAt(comp[i].t) =>
            \A f \in {"Open", "High", "Low", "Close"} :
                /\ ~comp[i][f].nan /\ ~comp[i][f].zero
                /\ comp[i][f].n = Len(data)
                /\ comp[i][f].prod = ProductAt(Len(data), comp[i].t, f)

\* What the fetches of one slot returned, from the log of fetch_data calls.
FetchesOf(name) == {i \in 1..Len(fetchlog) : fetchlog[i].ticker = name}
ReturnedFor(name) == fetchlog[CHOOSE i \in FetchesOf(name) : TRUE].df
SlotsDone == 1..(slot - 1)
Slots == 1..4
Primary(i) == <<"^IXIC", "^GSPC", "^DJI", "^RUT">>[i]
Fallback(i) == <<"QQQ", "SPY", "DIA", "IWM">>[i]
KeysOfData == {data[k].key : k \in 1..Len(data)}
MemberOf(name) == data[CHOOSE k \in 1..Len(data) : data[k].key = name].df

\* C19: in the geometric composite each slot's primary ticker is fetched,
\* its fallback is fetched if and only if the primary fetch returned an
\* empty series, and the slot contributes if and only if the primary or,
\* failing that, the fallback is non-empty; the composite is aligned to the
\* timestamps common to all contributing members and is empty when no slot
\* contributes.
C19_Fallbacks ==
    /\ \A i \in SlotsDone \cap Slots :
          /\ Cardinality(FetchesOf(Primary(i))) = 1
          /\ Cardinality(FetchesOf(Fallback(i))) =
                IF ReturnedFor(Primary(i)) = << >> THEN 1 ELSE 0
          /\ LET used == IF ReturnedFor(Primary(i)) # << >>
                         THEN ReturnedFor(Primary(i))
                         ELSE ReturnedFor(Fallback(i))
             IN  /\ Primary(i) \in KeysOfData <=> used # << >>
                 /\ Primary(i) \in KeysOfData => MemberOf(Primary(i)) = used
    /\ \A i \in Slots \ SlotsDone :
          Primary(i) \notin KeysOfData /\ FetchesOf(Fallback(i)) = {}
    /\ cpc = "done" =>
          /\ SlotsDone = Slots
          /\ TimesOf(comp) \subseteq CommonStamps
          /\ \A t \in CommonStamps : AllPositiveAt(t) => t \in TimesOf(comp)
          /\ Increasing(comp)
          /\ data = << >> => comp = << >>

\* C19 witness: the first slot came from its primary, the second from its
\* fallback, the third and fourth gave nothing; the composite has the one
\* timestamp the two contributing members share.
C19_Witness ==
    /\ cpc = "done"
    /\ KeysOfData = {"^IXIC", "^GSPC"}
    /\ FetchesOf("QQQ") = {} /\ FetchesOf("SPY") # {}
    /\ FetchesOf("DIA") # {} /\ FetchesOf("IWM") # {}
    /\ TimesOf(MemberOf("^IXIC")) = {1, 2} /\ TimesOf(MemberOf("^GSPC")) = {2}
    /\ AllPositiveAt(2)
    /\ TimesOf(comp) = {2}

\* C19, no contribution: eight fetches, all empty, and an empty composite.
C19_NothingFetched ==
    /\ cpc = "done" /\ Len(fetchlog) = 8 /\ data = << >> /\ comp = << >>

\* The first n bars of a series, and the first n rows of a frame.
FirstBars(f, n) == [j \in 1..n |-> f[j]]
FirstRows(fr, n) == [j \in 1..n |-> fr[j]]

\* C23: the rows the yearly, weekly and daily classifiers give for bar i
\* depend only on bars 0..i: classifying a prefix of the series gives the
\* corresponding prefix of the rows of the whole series, and classifying the
\* series again gives the same rows.  The prefix is the series without its
\* last bar; the series the pipeline starts from are closed under taking
\* prefixes, so every shorter prefix follows.
C23_PrefixStable ==
    Finished =>
        \A n \in {Len(df)} \cup {m \in {Len(df) - 1} : m >= 0} :
            /\ classify_regime(FirstBars(df, n)) = FirstRows(y, n)
            /\ classify_weekly_regime(FirstBars(df, n)) = FirstRows(w, n)
            /\ classify_daily_regime(FirstBars(df, n)) = FirstRows(d, n)

\* C23 witness: a 30-bar series whose last two bars differ from the run
\* before them, with the 29th bar classified in all three frames.
C23_Witness ==
    /\ pc = "done" /\ Len(df) = 30
    /\ df[29] # df[28] /\ df[30] # df[29]
    /\ ~y[29].isna /\ y[29].Macro # y[30].Macro
    /\ w[29].WeeklyMicro # "Neutral"

\* Bar i of the input is well-formed: low <= close <= high.
WellFormed(i) == df[i].Low <= df[i].Close /\ df[i].Close <= df[i].High
StrongLabels == {"Strong Bull", "Strong Bear"}
ApproachingStrong == {"Approaching Strong Bull", "Approaching Strong Bear"}

\* C26: a bar with low <= close <= high is never labelled StrongBull or
\* StrongBear by the yearly, weekly and daily classifiers, and never gets
\* ApproachingStrongBull or ApproachingStrongBear: the window over which hi
\* and lo are taken contains the bar itself.  Those four labels occur only
\* on a bar whose close lies outside its own high/low.
C26_NoStrongWhenWellFormed ==
    Finished =>
        \A r \in ClassifiedBars :
            WellFormed(r.i) =>
                r.Macro \notin StrongLabels /\ r.Transition \notin ApproachingStrong

\* C26 witness: a finished run in which a well-formed bar closing on its
\* high is WeakBull in all three frames, and a bar closing above its own
\* high is StrongBull.
C26_Witness ==
    /\ pc = "done"
    /\ \E r \in YearlyBars :
          /\ WellFormed(r.i) /\ df[r.i].Close = df[r.i].High
          /\ r.Macro = "Weak Bull"
          /\ \E q \in WeeklyBars : q.i = r.i /\ q.Macro = "Weak Bull"
          /\ \E q \in DailyBars : q.i = r.i /\ q.Macro = "Weak Bull"
    /\ \E r \in DailyBars : ~WellFormed(r.i) /\ r.Macro = "Strong Bull"

\* C29: a classified bar with fewer than 10 bars up to and including it
\* (weekly bars 5 to 9, daily bars 1 to 9) has no slow moving average, so
\* its micro label is MicroBear when macro is a Bull variant and MicroBull
\* when macro is a Bear variant, whatever the closes; MicroBullPlus does not
\* occur before the 10th bar.
C29_EarlyMicro ==
    Finished =>
        \A r \in ClassifiedBars :
            r.i < 10 =>
                /\ r.Macro \in {"Strong Bull", "Weak Bull"} => r.Micro = "Micro Bear"
                /\ r.Macro \in {"Strong Bear", "Weak Bear"} => r.Micro = "Micro Bull"
                /\ r.Micro # "Micro Bull+"

\* C29 witness: a weekly bar and a daily bar before the 10th, one Bull with
\* MicroBear although the closes rise, one Bear with MicroBull.
C29_Witness ==
    /\ pc = "done"
    /\ \E r \in WeeklyBars :
          /\ r.i < 10 /\ r.Macro = "Weak Bull" /\ r.Micro = "Micro Bear"
          /\ df[r.i].Close > df[r.i - 1].Close
    /\ \E r \in DailyBars :
          r.i < 10 /\ r.Macro = "Strong Bear" /\ r.Micro = "Micro Bull"

\* C29, from the 10th bar on: MicroBullPlus does occur.
C29_LaterBullPlus ==
    /\ pc = "done"
    /\ \E r \in DailyBars : r.i >= 10 /\ r.Micro = "Micro Bull+"

\* The local day of bar i, and the bars of a day inside a session window.
LocalDay(i) == (index.t0 + index.step * (i - 1) - index.utcoff) \div 24
LocalHourOf(i) == (index.t0 + index.step * (i - 1) - index.utcoff) % 24
WindowOf(name) ==
    CASE name = "Asia" -> <<4, 5>> [] name = "London" -> <<9, 10>>
      [] name = "NY AM" -> <<12, 13>> [] name = "NY PM" -> <<13, 14>>
BarsIn(name, day) ==
    {i \in 1..Len(df) : /\ LocalDay(i) = day
                        /\ LocalHourOf(i) >= WindowOf(name)[1]
                        /\ LocalHourOf(i) < WindowOf(name)[2]}
DaysOf(name) == {LocalDay(i) : i \in {j \in 1..Len(df) : BarsIn(name, LocalDay(j)) # {}}}
HighestOf(S) == CHOOSE x \in S : \A z \in S : z <= x
LowestOf(S) == CHOOSE x \in S : \A z \in S : x <= z

\* C21 as claimed: for an intraday series spanning several days, session
\* mode gives one row per session window per day: for each of Asia, London,
\* NY AM, NY PM and each day with bars inside the window there is one row
\* whose hi/lo are the max high/min low of that day's bars in the window.
C21_OnePerSessionPerDay ==
    (pc \in {"aggregate", "done"} /\ index.step < 24) =>
        \A name \in {"Asia", "London", "NY AM", "NY PM"} :
            /\ Cardinality({k \in 1..Len(s) : s[k].Session = name})
                  = Cardinality(DaysOf(name))
            /\ \A day \in DaysOf(name) :
                  \E k \in 1..Len(s) :
                      /\ s[k].Session = name
                      /\ s[k].Hi = HighestOf({df[i].High : i \in BarsIn(name, day)})
                      /\ s[k].Lo = LowestOf({df[i].Low : i \in BarsIn(name, day)})

\* C21, the part that holds on a series within one day: one row per session
\* window that has bars, with the max high and min low of those bars.
C21_SingleDay ==
    (pc \in {"aggregate", "done"} /\ index.step < 24 /\ Len(df) <= 10) =>
        \A name \in {"Asia", "London", "NY AM", "NY PM"} :
            /\ Cardinality({k \in 1..Len(s) : s[k].Session = name})
                  = Cardinality(DaysOf(name))
            /\ \A day \in DaysOf(name) :
                  \E k \in 1..Len(s) :
                      /\ s[k].Session = name
                      /\ s[k].Hi = HighestOf({df[i].High : i \in BarsIn(name, day)})
                      /\ s[k].Lo = LowestOf({df[i].Low : i \in BarsIn(name, day)})

\* The true range as the claim words it and as amended, and the sum of a
\* function of the bar index over the bars a..b.
Larger(a, b) == IF a >= b THEN a ELSE b
Dist(a, b) == IF a >= b THEN a - b ELSE b - a
TRClaimed(i) ==
    IF i = 1 THEN df[1].High - df[1].Low
    ELSE Larger(df[i].High - df[i].Low,
                Larger(Dist(df[i].High, df[i - 1].Close),
                       Dist(df[i].Low, df[i - 1].Close)))
TRAmended(i) ==
    IF i = 1 THEN Dist(df[1].High, df[1].Low)
    ELSE Larger(Dist(df[i].High, df[i].Low),
                Larger(Dist(df[i].High, df[i - 1].Close),
                       Dist(df[i].Low, df[i - 1].Close)))
RECURSIVE SumClaimed(_, _)
SumClaimed(a, b) == IF a > b THEN 0 ELSE TRClaimed(b) + SumClaimed(a, b - 1)
RECURSIVE SumAmended(_, _)
SumAmended(a, b) == IF a > b THEN 0 ELSE TRAmended(b) + SumAmended(a, b - 1)
\* Number of bars in the window ending at the i-th bar (counted from 1).
WindowCount(i) == IF i < atr_period THEN i ELSE atr_period

\* C22 as claimed: the ATR is defined on every bar of a non-empty series;
\* the true range of the first bar is high - low, that of a later bar is
\* max(high - low, |high - prev_close|, |low - prev_close|), and the ATR at
\* a bar is the mean of the true ranges of the last min(i + 1, period) bars.
C22_AtrAsClaimed ==
    pc = "atr_done" =>
        /\ Len(atr_out) = Len(df)
        /\ \A i \in 1..Len(df) :
              /\ atr_out[i].den > 0
              /\ atr_out[i].num * WindowCount(i)
                    = SumClaimed(i - WindowCount(i) + 1, i) * atr_out[i].den

\* C22 amended: as C22, with |high - low| in place of high - low in the true
\* range of the first bar and of every later bar.
C22_AtrAbsRange ==
    pc = "atr_done" =>
        /\ Len(atr_out) = Len(df)
        /\ \A i \in 1..Len(df) :
              /\ atr_out[i].den > 0
              /\ atr_out[i].num * WindowCount(i)
                    = SumAmended(i - WindowCount(i) + 1, i) * atr_out[i].den

\* C22 witness: four bars with period 3, the first with its High below its
\* Low, the last a plain bar gapping from the previous close; the window of
\* the last bar holds three bars and leaves out the first.
C22_Witness ==
    /\ pc = "atr_done" /\ atr_period = 3 /\ Len(df) = 4
    /\ df[1].High < df[1].Low
    /\ df[4].High > df[4].Low /\ df[3].Close > df[4].High
    /\ atr_out[1].num = 4 * atr_out[1].den
    /\ atr_out[4].den = 3

\* Transition and micro agree with macro on a row.
LabelsAgree(r) ==
    /\ r.Transition = "Approaching Weak Bull" => r.Macro = "Weak Bull"
    /\ r.Transition = "Approaching Strong Bull" => r.Macro = "Strong Bull"
    /\ r.Transition = "Approaching Weak Bear" => r.Macro = "Weak Bear"
    /\ r.Transition = "Approaching Strong Bear" => r.Macro = "Strong Bear"
    /\ r.Macro = "Neutral" => (r.Transition = "None" /\ r.Micro = "Neutral")
    /\ r.Micro = "Neutral" => r.Macro = "Neutral"

StrongFollows(r, a) ==
    a.num > 0 =>
        /\ r.Macro = "Strong Bull" => r.Transition = "Approaching Strong Bull"
        /\ r.Macro = "Strong Bear" => r.Transition = "Approaching Strong Bear"

LogIdx(o, key) == {i \in 1..Len(oplog) : oplog[i].op = o /\ oplog[i].key = key}
Clears == {i \in 1..Len(oplog) : oplog[i].op = "clear"}
CacheKeys == {KeyOf(kind) : kind \in Kinds}
MaxOf(S) == CHOOSE m \in S : \A x \in S : x <= m
OneLoad(v) == v.first # 0 /\ v.last = v.first
OwnResult(c) == [first |-> callers[c].id, last |-> callers[c].id]

\* C24: whatever the interleaving of loads of one key, an entry of the cache
\* is the complete result of the most recent set of that key, every value
\* ever set is the complete result of one load and never a mixture of two,
\* each caller whose load completed holds its own complete result, and there
\* are no more sets than missed gets.
C24_LastWriterWins ==
    /\ \A key \in DOMAIN cache :
          /\ LogIdx("set", key) # {}
          /\ cache[key].data = oplog[MaxOf(LogIdx("set", key))].val
          /\ cache[key].timestamp = oplog[MaxOf(LogIdx("set", key))].t
          /\ OneLoad(cache[key].data)
    /\ \A key \in CacheKeys :
          /\ \A i \in LogIdx("set", key) : OneLoad(oplog[i].val)
          /\ Cardinality(LogIdx("set", key))
               <= Cardinality({j \in LogIdx("get", key) : oplog[j].val = NoData})
    /\ \A c \in CallerIds :
          callers[c].outcome = "completed" => callers[c].ret = OwnResult(c)

\* Two loads of one key both missed, both fetched and both wrote; the cache
\* holds the second writer's result and each caller holds its own.
C24_Witness ==
    /\ Len(oplog) = 4
    /\ oplog[1].op = "get" /\ oplog[2].op = "get"
    /\ oplog[3].op = "set" /\ oplog[4].op = "set"
    /\ oplog[1].key = oplog[2].key /\ oplog[3].key = oplog[4].key
    /\ oplog[3].by # oplog[4].by
    /\ oplog[4].key \in DOMAIN cache
    /\ cache[oplog[4].key].data = oplog[4].val
    /\ cache[oplog[4].key].data # oplog[3].val
    /\ \A c \in CallerIds :
          callers[c].outcome = "completed" /\ callers[c].ret = OwnResult(c)

\* What get number j has to return: the value of the latest earlier set of
\* its key if there is one, no clear came after it and it is less than ttl
\* old; otherwise nothing.
Expected(j) ==
    LET S == {i \in LogIdx("set", oplog[j].key) : i < j}
    IN IF S = {} THEN NoData
       ELSE LET i == MaxOf(S)
            IN IF /\ oplog[j].t - oplog[i].t < ttl
                  /\ \A x \in Clears : ~(i < x /\ x < j)
               THEN oplog[i].val ELSE NoData

\* C25: every get returns the value of the most recent set of its key
\* exactly when that set is less than ttl old and no clear came since, and
\* nothing otherwise; a key is in the cache only if no clear and no missed
\* get of it came after its last set; no get after a clear returns a value
\* set before it, and a force refresh that has returned holds its own load.
C25_GetSetClear ==
    /\ \A key \in CacheKeys : \A j \in LogIdx("get", key) :
          oplog[j].val = Expected(j)
    /\ \A key \in CacheKeys :
          key \in DOMAIN cache <=>
             \E i \in LogIdx("set", key) :
                /\ \A x \in Clears : x < i
                /\ \A j \in LogIdx("get", key) : j > i => oplog[j].val # NoData
    /\ \A x \in Clears : \A key \in CacheKeys :
          \A i \in LogIdx("set", key) : \A j \in LogIdx("get", key) :
             i < x /\ x < j => oplog[j].val # oplog[i].val
    /\ \A c \in CallerIds :
          callers[c].forced /\ callers[c].pc = "returned"
             => callers[c].ret = OwnResult(c)

\* A get found an entry that had expired: it returned nothing and the entry
\* is gone.
C25_Witness ==
    \E key \in CacheKeys : \E j \in LogIdx("get", key) :
       /\ j = Len(oplog)
       /\ \E i \in LogIdx("set", key) : i < j /\ oplog[j].t - oplog[i].t >= ttl
       /\ Clears = {}
       /\ oplog[j].val = NoData
       /\ key \notin DOMAIN cache

\* A get served an entry that was set earlier and is not yet ttl old.
C25_ServedWhileFresh ==
    \E key \in CacheKeys : \E j \in LogIdx("get", key) :
       /\ oplog[j].val # NoData
       /\ \E i \in LogIdx("set", key) : i < j /\ oplog[j].t > oplog[i].t

\* A force refresh ran while the key was cached and has returned.
C25_RefreshedAfterCached ==
    \E c \in CallerIds : \E x \in Clears :
       /\ callers[c].forced /\ callers[c].pc = "returned"
       /\ oplog[x].by = c
       /\ \E i \in LogIdx("set", KeyOf("market")) : i < x

Begins(c) == callers[c].pc # "loading" /\ callers'[c].id # callers[c].id
Returned(c) == oplog'[Len(oplog')].val
Others(c) == CallerIds \ {c}

\* The parts of the claim that hold of every call.
CallContract(c) ==
    /\ Begins(c) /\ Returned(c) # NoData =>
          /\ callers'[c].pc = "returned"
          /\ callers'[c].ret = Returned(c)
          /\ callers'[c].local = NoData
          /\ UNCHANGED <<loading_status, progress, status_message>>
    /\ Begins(c) /\ Returned(c) = NoData =>
          /\ callers'[c].pc = "loading"
          /\ loading_status' = "loading"
          /\ callers'[c].written[1] = 0
    /\ callers[c].pc = "loading" /\ callers'[c].pc # "loading" =>
          \/ /\ callers'[c].pc = "returned"
             /\ loading_status' = "completed"
             /\ progress' = 60
             /\ KeyOf(callers[c].kind) \in DOMAIN cache'
             /\ cache'[KeyOf(callers[c].kind)].data = callers'[c].ret
             /\ OneLoad(callers'[c].ret)
          \/ /\ callers'[c].pc = "raised"
             /\ loading_status' = "error"
             /\ cache' = cache

\* C30 as stated: the contract of every call, with progress never
\* decreasing while the call is loading.
C30_LoadContract ==
    [][\A c \in CallerIds :
          /\ CallContract(c)
          /\ callers[c].pc = "loading" => progress' >= progress]_vars

OwnWrites(c) == callers[c].written
NonDecreasing(q) == \A i \in 1..Len(q) : \A j \in i..Len(q) : q[i] <= q[j]

\* C30: the contract of every call; the values a call writes to progress
\* never decrease, and progress does not decrease at a step of the load at
\* which it still holds the call's last write and no other call moves.
C30_LoadContractAlone ==
    [][\A c \in CallerIds :
          /\ CallContract(c)
          /\ NonDecreasing(OwnWrites(c)')
          /\ (/\ callers[c].pc = "loading"
              /\ progress = OwnWrites(c)[Len(OwnWrites(c))]
              /\ \A o \in Others(c) : callers'[o] = callers[o])
                => progress' >= progress]_vars

\* A market load ran through all its blocks and completed, and another call
\* ended with an error.
C30_Witness ==
    \E c \in CallerIds :
       /\ callers[c].outcome = "completed"
       /\ callers[c].kind = "market"
       /\ callers[c].written = <<0, 6, 12, 18, 24, 30, 36, 48, 60>>
       /\ KeyOf("market") \in DOMAIN cache
       /\ cache[KeyOf("market")].data = callers[c].ret
       /\ \E o \in Others(c) : callers[o].outcome = "error"

====
